---- MODULE Spec2Model ----
(***************************************************************************)
(* CSV-backed record stores of the invoice generator: the inventory store, *)
(* the invoice store and the shared storage primitives of                  *)
(* services/base_service.py.                                               *)
(*                                                                         *)
(* Every store operation is a read-entire-file / mutate / write-entire-    *)
(* file cycle through pandas (or an append through csv.writer), so a store *)
(* file is modelled as its text: a header and rows of text cells.  What a  *)
(* handler sees is what pandas.read_csv infers from that text, and what it *)
(* leaves behind is what DataFrame.to_csv prints.  pandas semantics are    *)
(* those of the 1.x/2.x line the code was written against (assignments     *)
(* that do not fit a column's dtype upcast the column).                    *)
(***************************************************************************)
EXTENDS Integers, Sequences, FiniteSets, TLC

VARIABLES
    inventory,      \* inventory.csv: its header and its rows of text cells
    last,           \* the last inventory call: its arguments and what it returned
    calls,          \* how many store calls this run has made
    invoices,       \* invoices.csv: its header and its rows of text cells
    inv_last,       \* the last invoice call: its arguments and what it returned
    issued,         \* the numbers get_next_invoice_number gave to saved invoices
    store,          \* a store file handled through the BaseService primitives
    backup,         \* today's backup copy of that file, once one is made
    out,            \* the last call on that file: its arguments and what it returned
    prior,          \* inventory.csv as it was before the last stock movement
    config,         \* the persisted configuration: its expense_categories entry
    default_categories, \* ExpenseService.DEFAULT_CATEGORIES, a list of the class
    cat_last,       \* the last category call: its arguments and what it returned
    os_name,        \* os.name of the platform the processes run on
    pc,             \* where each process is in its `with FileLock(path)` statement
    handle,         \* each process's FileLock.file: None, an open or a closed handle
    holder,         \* the process whose handle holds the lock on the path
    tries,          \* each process's failed locking attempts (msvcrt.LK_LOCK)
    job             \* each process's store call in progress: where it is, what it read

inventory_vars == <<inventory, last>>
invoice_vars == <<invoices, inv_last, issued>>
file_vars == <<store, backup, out>>
history_vars == <<prior>>
category_vars == <<config, default_categories, cat_last>>
lock_vars == <<os_name, pc, handle, holder, tries>>
job_vars == <<job>>
extra_vars == <<history_vars, category_vars, lock_vars, job_vars>>
vars == <<inventory, last, calls, invoices, inv_last, issued, store, backup, out, prior,
         config, default_categories, cat_last, os_name, pc, handle, holder, tries, job>>

(***************************************************************************)
(* Bounds of the model.                                                    *)
(***************************************************************************)
MaxRows == 2        \* rows an inventory file may hold
MaxStock == 1       \* largest stock a caller passes to add_product
MaxQty == 1         \* largest quantity passed to reduce_stock / restore_stock
MaxSold == 2        \* cap on the cumulative sold_quantity counter
MaxCalls == 3       \* store calls in one run of a store's state machine
MaxInvoices == 3    \* rows invoices.csv may hold
MaxLegacyRows == 2  \* rows of a file that is migrated
MaxRecords == 2     \* records written in one write_csv_safe call
MaxKeyed == 2       \* keyed calls in one run over the three stores

(***************************************************************************)
(* Text.  A string (a CSV cell, a Python str) is kept by its lexical form: *)
(*   int    the decimal digits of n            "44"                        *)
(*   dec    the digits of n followed by ".0"   "44.0"                      *)
(*   sku    "SC-SKU-" and n on five digits     "SC-SKU-00001"              *)
(*   word   any other string w, "" included    "M", "", "nan"              *)
(*   items  str() of the line-item list n of ItemLists                     *)
(*   chars  the characters c one by one        "#SC-2025-001", "017"       *)
(* A text of digits without a leading zero is always kept as int.          *)
(***************************************************************************)
TInt(n) == [k |-> "int", n |-> n, w |-> "", c |-> <<>>]
TDec(n) == [k |-> "dec", n |-> n, w |-> "", c |-> <<>>]
TSku(n) == [k |-> "sku", n |-> n, w |-> "", c |-> <<>>]
TWord(w) == [k |-> "word", n |-> 0, w |-> w, c |-> <<>>]
TItems(n) == [k |-> "items", n |-> n, w |-> "", c |-> <<>>]
TChars(c) == [k |-> "chars", n |-> 0, w |-> "", c |-> c]
Empty == TWord("")

DigitChars == <<"0", "1", "2", "3", "4", "5", "6", "7", "8", "9">>
IsDigit(ch) == \E i \in 1..10 : DigitChars[i] = ch
DigitVal(ch) == (CHOOSE i \in 1..10 : DigitChars[i] = ch) - 1
AllDigits(cs) == cs # <<>> /\ \A i \in DOMAIN cs : IsDigit(cs[i])

\* the number written by a sequence of digits
RECURSIVE ToInt(_)
ToInt(cs) ==
    IF cs = <<>> THEN 0
    ELSE 10 * ToInt(SubSeq(cs, 1, Len(cs) - 1)) + DigitVal(cs[Len(cs)])

\* the digits of n >= 0
RECURSIVE ToChars(_)
ToChars(n) ==
    IF n < 10 THEN <<DigitChars[n + 1]>>
    ELSE ToChars(n \div 10) \o <<DigitChars[(n % 10) + 1]>>

\* f"{n:03d}"
RECURSIVE ZeroPad(_, _)
ZeroPad(cs, width) == IF Len(cs) >= width THEN cs ELSE ZeroPad(<<"0">> \o cs, width)
Format03d(n) == ZeroPad(ToChars(n), 3)

\* cs.split(sep)
RECURSIVE Split(_, _)
Split(cs, sep) ==
    IF \A i \in DOMAIN cs : cs[i] # sep THEN <<cs>>
    ELSE LET i == CHOOSE j \in DOMAIN cs :
                      cs[j] = sep /\ \A h \in 1..(j - 1) : cs[h] # sep
         IN <<SubSeq(cs, 1, i - 1)>> \o Split(SubSeq(cs, i + 1, Len(cs)), sep)

\* cs.replace(a, b) for a character a and a string b
RECURSIVE Replace(_, _, _)
Replace(cs, a, b) ==
    IF cs = <<>> THEN <<>>
    ELSE (IF cs[1] = a THEN b ELSE <<cs[1]>>) \o Replace(Tail(cs), a, b)

\* the characters of a text; a word or an item list counts as one token
CharsOf(x) ==
    CASE x.k = "chars" -> x.c
      [] x.k = "int" -> ToChars(x.n)
      [] x.k = "dec" -> ToChars(x.n) \o <<".", "0">>
      [] x.k = "word" -> IF x.w = "" THEN <<>> ELSE <<x.w>>
      [] OTHER -> <<x.k>>

\* is the text a number for the CSV reader, and which
IsIntText(x) == x.k = "int" \/ (x.k = "chars" /\ AllDigits(x.c))
IsNumText(x) == IsIntText(x) \/ x.k = "dec"
NumOf(x) == IF x.k = "chars" THEN ToInt(x.c) ELSE x.n

(***************************************************************************)
(* Python values as pandas hands them out.                                 *)
(***************************************************************************)
PInt(n) == [t |-> "int", n |-> n, s |-> Empty]
PFloat(n) == [t |-> "float", n |-> n, s |-> Empty]
PBool(b) == [t |-> "bool", n |-> IF b THEN 1 ELSE 0, s |-> Empty]
PStr(x) == [t |-> "str", n |-> 0, s |-> x]
PNaN == [t |-> "nan", n |-> 0, s |-> Empty]

Range(s) == {s[i] : i \in DOMAIN s}
Max(a, b) == IF a >= b THEN a ELSE b
Abs(a) == IF a >= 0 THEN a ELSE 0 - a

\* str(v)
str(v) ==
    CASE v.t = "int" -> TInt(v.n)
      [] v.t = "float" -> TDec(v.n)
      [] v.t = "bool" -> TWord(IF v.n = 1 THEN "True" ELSE "False")
      [] v.t = "nan" -> TWord("nan")
      [] OTHER -> v.s

\* a == b on two scalars (NaN equals nothing, a str equals no number)
PyEq(a, b) ==
    CASE a.t = "nan" \/ b.t = "nan" -> FALSE
      [] a.t = "str" /\ b.t = "str" -> a.s = b.s
      [] a.t = "str" \/ b.t = "str" -> FALSE
      [] OTHER -> a.n = b.n

isna(v) == v.t = "nan"

\* can int(v) be computed, and its value
CanInt(v) == v.t \in {"int", "float", "bool"} \/ (v.t = "str" /\ v.s.k = "int")
int(v) == IF v.t = "str" THEN v.s.n ELSE v.n

(***************************************************************************)
(* pandas.read_csv: the strings read as missing, the dtype inferred for a  *)
(* column from its cells, and the value each cell gets.                    *)
(***************************************************************************)
NAWords == {"", "nan", "NaN", "NA", "N/A", "n/a", "NULL", "null", "None", "<NA>"}

IsNAText(x) == x.k = "word" /\ x.w \in NAWords
IsBoolText(x) == x.k = "word" /\ x.w \in {"True", "False"}

ColCells(f, c) == {f.rows[i][c] : i \in DOMAIN f.rows}

InferKind(cells) ==
    LET present == {x \in cells : ~IsNAText(x)} IN
    IF cells = {} THEN "object"
    ELSE IF present = {} THEN "float64"
    ELSE IF \A x \in cells : IsBoolText(x) THEN "bool"
    ELSE IF \E x \in present : ~IsNumText(x) THEN "object"
    ELSE IF present # cells \/ (\E x \in present : x.k = "dec") THEN "float64"
    ELSE "int64"

ParseCell(kind, x) ==
    IF IsNAText(x) THEN PNaN
    ELSE CASE kind = "int64" -> PInt(NumOf(x))
           [] kind = "float64" -> PFloat(NumOf(x))
           [] kind = "bool" -> PBool(x.w = "True")
           [] OTHER -> PStr(x)

read_csv(f) ==
    LET kind == [c \in Range(f.cols) |-> InferKind(ColCells(f, c))] IN
    [cols |-> f.cols,
     rows |-> [i \in DOMAIN f.rows |->
                 [c \in Range(f.cols) |-> ParseCell(kind[c], f.rows[i][c])]]]

(***************************************************************************)
(* DataFrame.to_csv(index=False): a numeric column that holds a float or a *)
(* missing value is float64 and prints every number with its ".0"; a       *)
(* missing value prints as the empty string.                               *)
(***************************************************************************)
DType(df, c) ==
    LET vs == {df.rows[i][c] : i \in DOMAIN df.rows} IN
    IF vs = {} THEN "object"
    ELSE IF \E v \in vs : v.t = "str" THEN "object"
    ELSE IF \A v \in vs : v.t = "bool" THEN "bool"
    ELSE IF \E v \in vs : v.t = "bool" THEN "object"
    ELSE IF \E v \in vs : v.t \in {"float", "nan"} THEN "float64"
    ELSE "int64"

CsvText(dtype, v) ==
    CASE v.t = "nan" -> Empty
      [] v.t = "int" -> IF dtype = "float64" THEN TDec(v.n) ELSE TInt(v.n)
      [] OTHER -> str(v)

to_csv(df) ==
    LET dtype == [c \in Range(df.cols) |-> DType(df, c)] IN
    [cols |-> df.cols,
     rows |-> [i \in DOMAIN df.rows |->
                 [c \in Range(df.cols) |-> CsvText(dtype[c], df.rows[i][c])]]]

\* df[c] = df[c].astype(str)
astype_str(df, c) ==
    [df EXCEPT !.rows = [i \in DOMAIN df.rows |->
                           [df.rows[i] EXCEPT ![c] = PStr(str(df.rows[i][c]))]]]

\* df.loc[mask, c] = v
SetLoc(df, mask, c, v) ==
    [df EXCEPT !.rows = [i \in DOMAIN df.rows |->
                           IF i \in mask THEN [df.rows[i] EXCEPT ![c] = v]
                           ELSE df.rows[i]]]

\* df[~mask]
DropRows(df, mask) ==
    LET keep == {i \in DOMAIN df.rows : i \notin mask}
        F[n \in 0..Len(df.rows)] ==
            IF n = 0 THEN <<>>
            ELSE IF n \in keep THEN Append(F[n - 1], df.rows[n]) ELSE F[n - 1]
    IN [df EXCEPT !.rows = F[Len(df.rows)]]

Min(S) == CHOOSE x \in S : \A y \in S : x <= y


(***************************************************************************)
(* InventoryService.                                                       *)
(***************************************************************************)
COLUMNS == <<"product_id", "name", "description", "size", "price",
             "buying_price", "stock", "added_date", "sold_quantity">>

\* datetime.now().strftime('%Y-%m-%d'): one day, kept as an opaque date
Today == TWord("2025-01-01")

\* the file _ensure_schema creates when there is none
EmptyInventory == [cols |-> COLUMNS, rows |-> <<>>]

\* rows of df with df['name'] == name and df['size'] == str(size)
NameSizeMask(df, name, size) ==
    {i \in DOMAIN df.rows :
        /\ PyEq(df.rows[i]["name"], PStr(TWord(name)))
        /\ PyEq(df.rows[i]["size"], PStr(str(size)))}

\* rows of df with df['product_id'] == product_id
IdMask(df, product_id) ==
    {i \in DOMAIN df.rows : PyEq(df.rows[i]["product_id"], PStr(product_id))}

\* the first unused SC-SKU-NNNNN, probing from 1, against the ids on disk
generate_product_id(f) ==
    LET df == read_csv(f)
        existing_ids == {df.rows[i]["product_id"] : i \in DOMAIN df.rows} \ {PNaN}
        counter == Min({n \in 1..(Len(f.rows) + 1) : PStr(TSku(n)) \notin existing_ids})
    IN TSku(counter)

\* what an operation hands back: the file it leaves, ok, a number, an id
Result(f, ok, ret, id) == [file |-> f, ok |-> ok, ret |-> ret, id |-> id]

\* add_product reads the file (line 115) and generate_product_id reads it
\* again (line 70): f is what the first read saw, idf what the second saw
add_product_reading(f, idf, product) ==
    LET df == astype_str(read_csv(f), "size")
        target_size == str(product.size)
        mask == NameSizeMask(df, product.name, product.size)
    IN
    IF mask # {} THEN
        LET found == df.rows[Min(mask)]["product_id"]
            missing == isna(found) \/ found = PStr(Empty)
            product_id == IF missing THEN generate_product_id(idf) ELSE str(found)
            df1 == IF missing THEN SetLoc(df, mask, "product_id", PStr(product_id)) ELSE df
            df2 == SetLoc(df1, mask, "stock", PInt(product.stock))
            df3 == SetLoc(df2, mask, "price", PInt(product.price))
            df4 == SetLoc(df3, mask, "buying_price", PInt(product.buying_price))
            df5 == SetLoc(df4, mask, "description", PStr(product.description))
        IN Result(to_csv(df5), TRUE, 0, product_id)
    ELSE
        LET product_id == IF product.product_id # Empty THEN product.product_id
                          ELSE generate_product_id(idf)
            new_row == [c \in Range(COLUMNS) |->
                          CASE c = "product_id" -> PStr(product_id)
                            [] c = "name" -> PStr(TWord(product.name))
                            [] c = "description" -> PStr(product.description)
                            [] c = "size" -> PStr(target_size)
                            [] c = "price" -> PInt(product.price)
                            [] c = "buying_price" -> PInt(product.buying_price)
                            [] c = "stock" -> PInt(product.stock)
                            [] c = "added_date" -> PStr(Today)
                            [] OTHER -> PInt(0)]
            df1 == [df EXCEPT !.rows = Append(df.rows, new_row)]
        IN Result(to_csv(df1), TRUE, 0, product_id)

add_product(f, product) == add_product_reading(f, f, product)

\* updates is one {key: value}; a key that is no column is skipped
update_product(f, product_id, key, value) ==
    LET df == read_csv(f)
        mask == IdMask(df, product_id)
    IN
    IF mask # {} THEN
        LET df1 == IF key \in Range(df.cols) /\ key # "product_id"
                   THEN SetLoc(df, mask, key, value) ELSE df
        IN Result(to_csv(df1), TRUE, 0, Empty)
    ELSE Result(f, FALSE, 0, Empty)

update_product_by_name_size(f, name, size, key, value) ==
    LET df == astype_str(read_csv(f), "size")
        mask == NameSizeMask(df, name, size)
    IN
    IF mask # {} THEN
        LET df1 == IF key \in Range(df.cols) THEN SetLoc(df, mask, key, value) ELSE df
        IN Result(to_csv(df1), TRUE, 0, Empty)
    ELSE Result(f, FALSE, 0, Empty)

delete_product(f, product_id) ==
    LET df == read_csv(f)
    IN Result(to_csv(DropRows(df, IdMask(df, product_id))), TRUE, 0, Empty)

delete_product_by_name_size(f, name, size) ==
    LET df == astype_str(read_csv(f), "size")
    IN Result(to_csv(DropRows(df, NameSizeMask(df, name, size))), TRUE, 0, Empty)

\* DataManager.delete_product: the size column is converted for the
\* comparison only
legacy_delete_product(f, name, size) ==
    LET df == read_csv(f)
    IN Result(to_csv(DropRows(df, NameSizeMask(astype_str(df, "size"), name, size))),
              TRUE, 0, Empty)

\* int(x or 0) on the sold_quantity of the first matching row
SoldOf(v) == IF v.t \in {"int", "float", "bool"} /\ v.n = 0 THEN PInt(0) ELSE v

\* reduce_stock without the floor: new_stock = current_stock - quantity
reduce_stock_unfloored(f, name, size, quantity) ==
    LET df == astype_str(read_csv(f), "size")
        mask == NameSizeMask(df, name, size)
    IN
    IF mask = {} THEN Result(f, FALSE, 0, Empty)
    ELSE
        LET first == df.rows[Min(mask)]
            new_stock == int(first["stock"]) - quantity
            df1 == SetLoc(df, mask, "stock", PInt(new_stock))
            df2 == SetLoc(df1, mask, "sold_quantity",
                          PInt(int(first["sold_quantity"]) + quantity))
        IN Result(to_csv(df2), TRUE, new_stock, Empty)

reduce_stock(f, name, size, quantity) ==
    LET df == astype_str(read_csv(f), "size")
        mask == NameSizeMask(df, name, size)
    IN
    IF mask = {} THEN Result(f, FALSE, 0, Empty)
    ELSE
        LET first == df.rows[Min(mask)]
            sold == SoldOf(first["sold_quantity"])
        IN
        \* int() of a missing or non-numeric cell raises: caught, (False, 0)
        IF ~CanInt(first["stock"]) \/ ~CanInt(sold) THEN Result(f, FALSE, 0, Empty)
        ELSE
            LET current_stock == int(first["stock"])
                new_stock == Max(0, current_stock - quantity)
                df1 == SetLoc(df, mask, "stock", PInt(new_stock))
                df2 == SetLoc(df1, mask, "sold_quantity", PInt(int(sold) + quantity))
            IN Result(to_csv(df2), TRUE, new_stock, Empty)

\* DataManager.reduce_stock: the same floor; the size column is converted for
\* the comparison only and sold_quantity is left alone
legacy_reduce_stock(f, name, size, quantity) ==
    LET df == read_csv(f)
        mask == NameSizeMask(astype_str(df, "size"), name, size)
    IN
    IF mask = {} THEN Result(f, FALSE, 0, Empty)
    ELSE
        LET first == df.rows[Min(mask)] IN
        IF ~CanInt(first["stock"]) THEN Result(f, FALSE, 0, Empty)
        ELSE
            LET current_stock == int(first["stock"])
                new_stock == Max(0, current_stock - quantity)
            IN Result(to_csv(SetLoc(df, mask, "stock", PInt(new_stock))), TRUE,
                      new_stock, Empty)

restore_stock(f, name, size, quantity) ==
    LET df == astype_str(read_csv(f), "size")
        mask == NameSizeMask(df, name, size)
    IN
    IF mask = {} THEN Result(f, FALSE, 0, Empty)
    ELSE
        LET first == df.rows[Min(mask)]
            sold == SoldOf(first["sold_quantity"])
        IN
        IF ~CanInt(first["stock"]) \/ ~CanInt(sold) THEN Result(f, FALSE, 0, Empty)
        ELSE
            LET current_stock == int(first["stock"])
                new_stock == current_stock + quantity
                df1 == SetLoc(df, mask, "stock", PInt(new_stock))
                df2 == SetLoc(df1, mask, "sold_quantity",
                              PInt(Max(0, int(sold) - quantity)))
            IN Result(to_csv(df2), TRUE, new_stock, Empty)

check_stock_availability(f, name, size, required_qty) ==
    LET df == astype_str(read_csv(f), "size")
        mask == NameSizeMask(df, name, size)
    IN
    IF mask = {} THEN Result(f, FALSE, 0, Empty)
    ELSE
        LET first == df.rows[Min(mask)] IN
        IF ~CanInt(first["stock"]) THEN Result(f, FALSE, 0, Empty)
        ELSE
            LET current_stock == int(first["stock"])
            IN Result(f, current_stock >= required_qty, current_stock, Empty)

\* DataManager.check_stock_availability: the size column is converted for the
\* comparison only
legacy_check_stock_availability(f, name, size, required_qty) ==
    LET df == read_csv(f)
        mask == NameSizeMask(astype_str(df, "size"), name, size)
    IN
    IF mask = {} THEN Result(f, FALSE, 0, Empty)
    ELSE
        LET first == df.rows[Min(mask)] IN
        IF ~CanInt(first["stock"]) THEN Result(f, FALSE, 0, Empty)
        ELSE
            LET current_stock == int(first["stock"])
            IN Result(f, current_stock >= required_qty, current_stock, Empty)


(***************************************************************************)
(* InvoiceService.  invoices.csv has the fifteen columns below; line items *)
(* are kept as str() of a list of dicts.                                   *)
(***************************************************************************)
INVOICE_COLUMNS ==
    <<"invoice_number", "date", "customer_name", "customer_phone",
      "customer_address", "subtotal", "discount", "delivery", "grand_total",
      "payment_method", "transaction_id", "items_json", "status",
      "original_invoice_no", "hash">>

STATUSES == {"PAID", "PARTIAL", "DUE"}

EmptyInvoices == [cols |-> INVOICE_COLUMNS, rows |-> <<>>]

\* datetime.now(): the year, and the day as '%m/%d/%Y'
Year == <<"2", "0", "2", "5">>
TodayMDY == TWord("01/01/2025")

\* the line-item lists of the model; TItems(i) is str(ItemLists[i])
ItemLists ==
    <<
      <<[name |-> "A", size |-> "44", qty |-> 1, price |-> 5]>>,
      <<[name |-> "A", size |-> "44", qty |-> 2, price |-> 5],
        [name |-> "B", size |-> "M", qty |-> 1, price |-> 3]>>,
      <<>>
    >>

\* hashlib.md5(f"{customer}|{items}|{date}".encode()).hexdigest()[:12], for
\* the customers and item lists of the model on the date 01/01/2025
_compute_hash(customer, items, date) ==
    LET who == str(customer).w IN
    CASE who = "Rahim" /\ items.n = 1 -> TWord("d6331b65728e")
      [] who = "Rahim" /\ items.n = 2 -> TWord("66c801b7df6f")
      [] who = "Customer 66295" /\ items.n = 1 ->
            TChars(<<"0", "0", "0", "0", "7", "1", "6", "5", "8", "5", "3", "8">>)
      [] who = "Customer 66295" /\ items.n = 2 -> TWord("d58513245460")
      [] who = "Rahim" /\ items.n = 3 -> TWord("5902f069df2e")
      [] who = "Customer 66295" /\ items.n = 3 -> TWord("63d9139ee121")
      [] items.n = 1 -> TWord("684d2fa608ca")
      [] items.n = 3 -> TWord("11e12bcec403")
      [] OTHER -> TWord("fc0a2631def4")

\* the rows of df whose column c equals v
EqMask(df, c, v) == {i \in DOMAIN df.rows : PyEq(df.rows[i][c], v)}

NoRecord == [found |-> FALSE, row |-> <<>>]

detect_duplicate(f, invoice_hash) ==
    LET df == read_csv(f)
        matching == EqMask(df, "hash", PStr(invoice_hash))
    IN IF matching = {} THEN NoRecord
       ELSE [found |-> TRUE, row |-> df.rows[Min(matching)]]

\* csv.writer appends the values, by position, as one more line of the file
AppendLine(f, row) ==
    LET Pos(c) == CHOOSE i \in DOMAIN f.cols : f.cols[i] = c IN
    [f EXCEPT !.rows = Append(@, [c \in Range(f.cols) |-> str(row[Pos(c)])])]

NoWarning == [dup |-> FALSE, of |-> Empty]

save_invoice(f, data) ==
    LET items_str == TItems(data.products)
        invoice_hash == _compute_hash(data.customer_name, items_str, data.date)
        existing == detect_duplicate(f, invoice_hash)
        warning == IF existing.found
                   THEN [dup |-> TRUE, of |-> str(existing.row["invoice_number"])]
                   ELSE NoWarning
        row == <<PStr(data.invoice_number), PStr(data.date), data.customer_name,
                 data.customer_phone, data.customer_address, data.subtotal,
                 data.discount, data.delivery, data.grand_total,
                 PStr(data.payment_method), PStr(Empty), PStr(items_str),
                 PStr(data.status), PStr(data.original_invoice_no),
                 PStr(invoice_hash)>>
    IN [file |-> AppendLine(f, row), ok |-> TRUE, warn |-> warning,
        ret |-> Empty, hash |-> invoice_hash]

ResetNumber == TChars(<<"#", "S", "C", "-">> \o Year \o <<"-", "0", "0", "1">>)

\* prefix, year, num = s.split('-'); f"{prefix}-{year}-{int(num) + 1:03d}"
NextAfter(s) ==
    LET parts == Split(s, "-") IN
    IF Len(parts) = 3 /\ AllDigits(parts[3])
    THEN TChars(parts[1] \o <<"-">> \o parts[2] \o <<"-">>
                  \o Format03d(ToInt(parts[3]) + 1))
    ELSE ResetNumber

get_next_invoice_number(f) ==
    LET df == read_csv(f)
        kept == {i \in DOMAIN df.rows :
                    /\ ~isna(df.rows[i]["invoice_number"])
                    /\ ~PyEq(df.rows[i]["invoice_number"], PStr(Empty))}
    IN IF kept = {} THEN ResetNumber
       ELSE LET last_inv == df.rows[CHOOSE i \in kept : \A j \in kept : j <= i]["invoice_number"]
            IN NextAfter(CharsOf(str(last_inv)))

\* DataManager.get_next_invoice_number: the last row, whatever it holds
legacy_get_next_invoice_number(f) ==
    LET df == read_csv(f) IN
    IF df.rows = <<>> THEN ResetNumber
    ELSE LET last_inv == df.rows[Len(df.rows)]["invoice_number"] IN
         IF last_inv.t # "str" THEN ResetNumber
         ELSE NextAfter(CharsOf(last_inv.s))

get_invoice(f, invoice_number) ==
    LET df == read_csv(f)
        invoice == EqMask(df, "invoice_number", PStr(invoice_number))
    IN IF invoice = {} THEN NoRecord
       ELSE [found |-> TRUE, row |-> df.rows[Min(invoice)]]

update_invoice(f, invoice_number, key, value) ==
    LET df == read_csv(f)
        mask == EqMask(df, "invoice_number", PStr(invoice_number))
    IN IF mask = {} THEN [file |-> f, ok |-> FALSE]
       ELSE [file |-> to_csv(IF key \in Range(df.cols) /\ key # "invoice_number"
                             THEN SetLoc(df, mask, key, value) ELSE df),
             ok |-> TRUE]

update_invoice_status(f, invoice_number, status) ==
    IF status \notin STATUSES THEN [file |-> f, ok |-> FALSE]
    ELSE update_invoice(f, invoice_number, "status", PStr(TWord(status)))

delete_invoice(f, invoice_number) ==
    LET df == read_csv(f)
        mask == EqMask(df, "invoice_number", PStr(invoice_number))
    IN IF mask = {} THEN [file |-> f, ok |-> FALSE, removed |-> NoRecord]
       ELSE [file |-> to_csv(DropRows(df, mask)), ok |-> TRUE,
             removed |-> [found |-> TRUE, row |-> df.rows[Min(mask)]]]

\* sum(qty * price) as the invoice form computes it
RECURSIVE SumItems(_)
SumItems(items) ==
    IF items = <<>> THEN 0
    ELSE items[1].qty * items[1].price + SumItems(Tail(items))

\* sum(-abs(price * qty))
RECURSIVE SumReturned(_)
SumReturned(items) ==
    IF items = <<>> THEN 0
    ELSE (0 - Abs(items[1].price * items[1].qty)) + SumReturned(Tail(items))

\* create_return_invoice without the sign: subtotal = sum(price * qty)
create_return_invoice_unsigned(f, original_invoice_no, return_items) ==
    LET original == get_invoice(f, original_invoice_no) IN
    IF ~original.found
    THEN [file |-> f, ok |-> FALSE, warn |-> NoWarning, ret |-> TWord("Original invoice not found"),
          hash |-> Empty]
    ELSE
        LET return_number ==
                TChars(<<"R", "E", "T", "-">>
                        \o Replace(Replace(CharsOf(original_invoice_no), "#", <<>>),
                                   "-", <<"_">>))
            subtotal == SumItems(ItemLists[return_items])
            return_data ==
                [invoice_number |-> return_number,
                 date |-> TodayMDY,
                 customer_name |-> original.row["customer_name"],
                 customer_phone |-> original.row["customer_phone"],
                 customer_address |-> original.row["customer_address"],
                 subtotal |-> PInt(subtotal),
                 discount |-> PInt(0),
                 delivery |-> PInt(0),
                 grand_total |-> PInt(subtotal),
                 payment_method |-> TWord("Refund"),
                 products |-> return_items,
                 status |-> TWord("PAID"),
                 original_invoice_no |-> original_invoice_no]
            saved == save_invoice(f, return_data)
        IN [saved EXCEPT !.ret = return_number]

create_return_invoice(f, original_invoice_no, return_items) ==
    LET original == get_invoice(f, original_invoice_no) IN
    IF ~original.found
    THEN [file |-> f, ok |-> FALSE, warn |-> NoWarning, ret |-> TWord("Original invoice not found"),
          hash |-> Empty]
    ELSE
        LET return_number ==
                TChars(<<"R", "E", "T", "-">>
                        \o Replace(Replace(CharsOf(original_invoice_no), "#", <<>>),
                                   "-", <<"_">>))
            subtotal == SumReturned(ItemLists[return_items])
            return_data ==
                [invoice_number |-> return_number,
                 date |-> TodayMDY,
                 customer_name |-> original.row["customer_name"],
                 customer_phone |-> original.row["customer_phone"],
                 customer_address |-> original.row["customer_address"],
                 subtotal |-> PInt(subtotal),
                 discount |-> PInt(0),
                 delivery |-> PInt(0),
                 grand_total |-> PInt(subtotal),
                 payment_method |-> TWord("Refund"),
                 products |-> return_items,
                 status |-> TWord("PAID"),
                 original_invoice_no |-> original_invoice_no]
            saved == save_invoice(f, return_data)
        IN [saved EXCEPT !.ret = return_number]

NoInvoiceArgs ==
    [invoice_number |-> Empty, customer_name |-> "", products |-> 0,
     numbered |-> FALSE, key |-> "", value |-> PNaN]

NoInvoiceCall ==
    [op |-> "init", args |-> NoInvoiceArgs, ok |-> TRUE, ret |-> Empty,
     warn |-> NoWarning, hash |-> Empty]

(***************************************************************************)
(* BaseService: backup, schema migration, whole-file read and write.  A    *)
(* file without a header line (an empty file) has no columns; pandas       *)
(* refuses to read it.                                                     *)
(***************************************************************************)
NoFile == [cols |-> <<>>, rows |-> <<>>]
Unreadable(f) == f.cols = <<>>

\* create_backup: one copy per day, the first one made
create_backup(f, kept) == IF kept = NoFile THEN f ELSE kept

\* df[col] = default
AddColumn(df, col, default) ==
    [cols |-> Append(df.cols, col),
     rows |-> [i \in DOMAIN df.rows |->
                 [c \in Range(df.cols) \cup {col} |->
                    IF c = col THEN default ELSE df.rows[i][c]]]]

\* for col, default in new_columns.items(): if col not in df.columns: ...
RECURSIVE AddMissing(_, _)
AddMissing(df, new_columns) ==
    IF new_columns = <<>> THEN df
    ELSE LET col == new_columns[1].col
             df1 == IF col \in Range(df.cols) THEN df
                    ELSE AddColumn(df, col, new_columns[1].default)
         IN AddMissing(df1, Tail(new_columns))

migrate_schema(f, new_columns) ==
    IF Unreadable(f) THEN [file |-> f, ok |-> FALSE]
    ELSE [file |-> to_csv(AddMissing(read_csv(f), new_columns)), ok |-> TRUE]

\* df.to_dict('records'), [] when the file cannot be read
read_csv_safe(f) == IF Unreadable(f) THEN <<>> ELSE read_csv(f).rows

\* pd.DataFrame(data, columns=columns).to_csv(file_path, index=False)
write_csv_safe(data, columns) ==
    to_csv([cols |-> columns,
            rows |-> [i \in DOMAIN data |-> [c \in Range(columns) |-> data[i][c]]]])

(***************************************************************************)
(* ExpenseService: adding and listing expenses.                            *)
(***************************************************************************)
EXPENSE_COLUMNS ==
    <<"expense_id", "date", "category", "amount", "description",
      "related_product", "allocated">>

EmptyExpenses == [cols |-> EXPENSE_COLUMNS, rows |-> <<>>]

\* f"EXP-{n:05d}"
TExp(n) == [k |-> "exp", n |-> n, w |-> "", c |-> <<>>]

_generate_expense_id(f) ==
    LET existing == IF Unreadable(f) \/ "expense_id" \notin Range(f.cols) THEN {}
                    ELSE {v \in {read_csv(f).rows[i]["expense_id"] : i \in DOMAIN f.rows} :
                             ~isna(v)}
    IN TExp(Min({n \in 1..(Len(f.rows) + 1) :
                    \A v \in existing : ~PyEq(v, PStr(TExp(n)))}))

\* is a value true in a Python condition
Truthy(v) ==
    CASE v.t = "str" -> v.s # Empty
      [] v.t = "nan" -> TRUE
      [] OTHER -> v.n # 0

add_expense(f, data) ==
    LET expense_id == IF Truthy(data["expense_id"]) THEN data["expense_id"]
                      ELSE PStr(_generate_expense_id(f))
        row == <<expense_id, data["date"], data["category"], data["amount"],
                 data["description"], data["related_product"], data["allocated"]>>
    IN [file |-> AppendLine(f, row), ok |-> TRUE, id |-> expense_id]

get_expenses(f) == read_csv_safe(f)

\* rows equal to row_data in date, category, str(amount) and description
FieldsMask(df, row_data) ==
    {i \in DOMAIN df.rows :
        /\ PyEq(df.rows[i]["date"], row_data["date"])
        /\ PyEq(df.rows[i]["category"], row_data["category"])
        /\ PyEq(PStr(str(df.rows[i]["amount"])), PStr(str(row_data["amount"])))
        /\ PyEq(df.rows[i]["description"], row_data["description"])}

delete_expense_by_fields(f, row_data) ==
    IF Unreadable(f) THEN [file |-> f, ok |-> FALSE]
    ELSE LET df == read_csv(f)
         IN [file |-> to_csv(DropRows(df, FieldsMask(df, row_data))), ok |-> TRUE]

update_expense(f, expense_id, key, value) ==
    IF Unreadable(f) \/ "expense_id" \notin Range(f.cols) THEN [file |-> f, ok |-> FALSE]
    ELSE LET df == read_csv(f)
             mask == EqMask(df, "expense_id", expense_id)
         IN IF mask = {} THEN [file |-> f, ok |-> FALSE]
            ELSE [file |-> to_csv(IF key \in Range(df.cols)
                                  THEN SetLoc(df, mask, key, value) ELSE df),
                  ok |-> TRUE]

delete_expense(f, expense_id) ==
    IF Unreadable(f) \/ "expense_id" \notin Range(f.cols) THEN [file |-> f, ok |-> FALSE]
    ELSE LET df == read_csv(f)
         IN [file |-> to_csv(DropRows(df, EqMask(df, "expense_id", expense_id))),
             ok |-> TRUE]

NoFileCall ==
    [op |-> "init", cols |-> <<>>, data |-> <<>>, ok |-> TRUE, ret |-> <<>>,
     id |-> PNaN]

(***************************************************************************)
(* The inventory store as a state machine: the file on disk, and the last  *)
(* call with what it returned.                                             *)
(***************************************************************************)
Names == {"A", "B"}
SizeArgs == {PStr(TInt(44)), PStr(Empty), PStr(TWord("M"))}
\* a caller either names no product_id, or brings its own with another price
Offers == {[price |-> 5, product_id |-> Empty], [price |-> 6, product_id |-> TWord("X-1")]}

Products ==
    {[name |-> name, size |-> size, stock |-> stock, price |-> o.price,
      buying_price |-> 3, description |-> Empty, product_id |-> o.product_id] :
        name \in Names, size \in SizeArgs, stock \in 0..MaxStock, o \in Offers}

\* the {key: value} dictionaries passed to the two update operations
Updates ==
    {[key |-> "stock", value |-> PInt(0)]}
        \cup {[key |-> "size", value |-> s] : s \in SizeArgs}

NoArgs ==
    [name |-> "", size |-> PStr(Empty), stock |-> 0, price |-> 0, buying_price |-> 0,
     description |-> Empty, product_id |-> Empty, qty |-> 0, key |-> "",
     value |-> PNaN]

ProductArgs(product) ==
    [NoArgs EXCEPT !.name = product.name, !.size = product.size,
                   !.stock = product.stock, !.price = product.price,
                   !.buying_price = product.buying_price,
                   !.description = product.description,
                   !.product_id = product.product_id]

Call(op, args, r) ==
    /\ inventory' = r.file
    /\ last' = [op |-> op, args |-> args, ok |-> r.ok, ret |-> r.ret, id |-> r.id]
    /\ UNCHANGED <<invoice_vars, file_vars>>

\* the ids a caller can have learnt: those on disk, and one that is not
KnownIds(f) == {f.rows[i]["product_id"] : i \in DOMAIN f.rows} \cup {TSku(1)}

\* the stock and sold_quantity cells of df stay within the bounds
Bounded(f) ==
    /\ Len(f.rows) <= MaxRows
    /\ \A i \in DOMAIN f.rows :
        /\ IsNumText(f.rows[i]["stock"]) => NumOf(f.rows[i]["stock"]) <= MaxStock
        /\ IsNumText(f.rows[i]["sold_quantity"]) =>
              NumOf(f.rows[i]["sold_quantity"]) <= MaxSold

AddProduct ==
    \E product \in Products :
        \E r \in {add_product(inventory, product)} :
        /\ Bounded(r.file)
        /\ Call("add_product", ProductArgs(product), r)

UpdateProduct ==
    \E product_id \in KnownIds(inventory), u \in Updates :
        Call("update_product",
             [NoArgs EXCEPT !.product_id = product_id, !.key = u.key, !.value = u.value],
             update_product(inventory, product_id, u.key, u.value))

UpdateProductByNameSize ==
    \E name \in Names, size \in SizeArgs, u \in Updates :
        Call("update_product_by_name_size",
             [NoArgs EXCEPT !.name = name, !.size = size, !.key = u.key,
                            !.value = u.value],
             update_product_by_name_size(inventory, name, size, u.key, u.value))

DeleteProduct ==
    \E product_id \in KnownIds(inventory) :
        Call("delete_product", [NoArgs EXCEPT !.product_id = product_id],
             delete_product(inventory, product_id))

DeleteProductByNameSize ==
    \E name \in Names, size \in SizeArgs :
        Call("delete_product_by_name_size", [NoArgs EXCEPT !.name = name, !.size = size],
             delete_product_by_name_size(inventory, name, size))

LegacyDeleteProduct ==
    \E name \in Names, size \in SizeArgs :
        Call("delete_product_by_name_size", [NoArgs EXCEPT !.name = name, !.size = size],
             legacy_delete_product(inventory, name, size))

ReduceStock ==
    \E name \in Names, size \in SizeArgs, quantity \in 0..MaxQty :
        \E r \in {reduce_stock(inventory, name, size, quantity)} :
        /\ Bounded(r.file)
        /\ Call("reduce_stock",
                [NoArgs EXCEPT !.name = name, !.size = size, !.qty = quantity], r)

LegacyReduceStock ==
    \E name \in Names, size \in SizeArgs, quantity \in 0..MaxQty :
        \E r \in {legacy_reduce_stock(inventory, name, size, quantity)} :
        /\ Bounded(r.file)
        /\ Call("reduce_stock",
                [NoArgs EXCEPT !.name = name, !.size = size, !.qty = quantity], r)

RestoreStock ==
    \E name \in Names, size \in SizeArgs, quantity \in 0..MaxQty :
        \E r \in {restore_stock(inventory, name, size, quantity)} :
        /\ Bounded(r.file)
        /\ Call("restore_stock",
                [NoArgs EXCEPT !.name = name, !.size = size, !.qty = quantity], r)

CheckStock ==
    \E name \in Names, size \in SizeArgs, required_qty \in 0..MaxQty :
        Call("check_stock_availability",
             [NoArgs EXCEPT !.name = name, !.size = size, !.qty = required_qty],
             check_stock_availability(inventory, name, size, required_qty))

LegacyCheckStock ==
    \E name \in Names, size \in SizeArgs, required_qty \in 0..MaxQty :
        Call("check_stock_availability",
             [NoArgs EXCEPT !.name = name, !.size = size, !.qty = required_qty],
             legacy_check_stock_availability(inventory, name, size, required_qty))

(***************************************************************************)
(* Expense categories.  The vocabulary is one entry of the persisted       *)
(* configuration; a configuration without the entry answers the default    *)
(* list it is handed, the very list object and not a copy of it.           *)
(***************************************************************************)
DEFAULT_CATEGORIES ==
    <<"Packaging", "Courier", "Product Purchase", "Marketing", "Customs", "Logistics",
      "Other">>

\* defaults of DataManager.get_expense_categories, built anew by every call
defaults == <<"Packaging", "Courier", "Product Purchase", "Marketing", "Other">>

NoEntry == [set |-> FALSE, value |-> <<>>]

\* cfg.get('expense_categories', default)
get_config(cfg, default) == IF cfg.set THEN cfg.value ELSE default

\* cats.remove(category): the first occurrence goes
RECURSIVE remove(_, _)
remove(cats, category) ==
    IF cats = <<>> THEN <<>>
    ELSE IF cats[1] = category THEN Tail(cats)
    ELSE <<cats[1]>> \o remove(Tail(cats), category)

CategoryResult(cfg, dflt, ok) == [config |-> cfg, default_categories |-> dflt, ok |-> ok]

\* config_manager is None when the caller hands none over
get_categories(cfg, dflt, config_manager) ==
    IF config_manager THEN get_config(cfg, dflt) ELSE dflt

add_category(cfg, dflt, category, config_manager) ==
    IF ~config_manager THEN CategoryResult(cfg, dflt, FALSE)
    ELSE
        LET cats == get_categories(cfg, dflt, config_manager) IN
        IF category \in Range(cats) THEN CategoryResult(cfg, dflt, FALSE)
        ELSE
            \* cats.append(category) acts on the list get() answered
            LET appended == Append(cats, category) IN
            CategoryResult([set |-> TRUE, value |-> appended],
                           IF cfg.set THEN dflt ELSE appended, TRUE)

delete_category(cfg, dflt, category, config_manager) ==
    IF ~config_manager THEN CategoryResult(cfg, dflt, FALSE)
    ELSE
        LET cats == get_categories(cfg, dflt, config_manager) IN
        IF category \notin Range(cats) THEN CategoryResult(cfg, dflt, FALSE)
        ELSE
            LET removed == remove(cats, category) IN
            CategoryResult([set |-> TRUE, value |-> removed],
                           IF cfg.set THEN dflt ELSE removed, TRUE)

get_expense_categories(cfg) == get_config(cfg, defaults)

add_expense_category(cfg, dflt, category) ==
    LET cats == get_expense_categories(cfg) IN
    IF category \notin Range(cats)
    THEN CategoryResult([set |-> TRUE, value |-> Append(cats, category)], dflt, TRUE)
    ELSE CategoryResult(cfg, dflt, FALSE)

delete_expense_category(cfg, dflt, category) ==
    LET cats == get_expense_categories(cfg) IN
    IF category \in Range(cats)
    THEN CategoryResult([set |-> TRUE, value |-> remove(cats, category)], dflt, TRUE)
    ELSE CategoryResult(cfg, dflt, FALSE)

NoCategoryCall ==
    [op |-> "init", category |-> "", config_manager |-> FALSE, ok |-> TRUE, ret |-> <<>>]

\* a fresh installation: no categories saved yet, no category call made
NoCategoryCalls ==
    /\ config = NoEntry
    /\ default_categories = DEFAULT_CATEGORIES
    /\ cat_last = NoCategoryCall

\* no stock movement followed yet
NoHistory == prior = NoFile

\* the processes that may lock the one path
Procs == {"p1", "p2"}

\* no process is in a with statement, no FileLock has a handle
NoLocks ==
    /\ pc = [p \in Procs |-> "out"]
    /\ handle = [p \in Procs |-> "None"]
    /\ holder = "None"
    /\ tries = [p \in Procs |-> 0]

\* no store call is in progress in any process
NoJob == [at |-> "idle", op |-> "", args |-> NoArgs, df |-> NoFile, ids |-> NoFile]
NoJobs == job = [p \in Procs |-> NoJob]

NoExtras == NoHistory /\ NoCategoryCalls /\ os_name = "posix" /\ NoLocks /\ NoJobs

NoCall == [op |-> "init", args |-> NoArgs, ok |-> TRUE, ret |-> 0, id |-> Empty]

\* no invoice call made yet on an empty invoices.csv
NoInvoices ==
    /\ invoices = EmptyInvoices
    /\ inv_last = NoInvoiceCall
    /\ issued = <<>>

\* no file handled yet through the BaseService primitives
NoFiles ==
    /\ store = NoFile
    /\ backup = NoFile
    /\ out = NoFileCall

Init ==
    /\ inventory = EmptyInventory
    /\ last = NoCall
    /\ calls = 0
    /\ NoExtras
    /\ NoInvoices
    /\ NoFiles

\* one more call of a run of at most MaxCalls calls
Tick == calls < MaxCalls /\ calls' = calls + 1 /\ UNCHANGED extra_vars

Next ==
    \/ Tick /\ AddProduct
    \/ Tick /\ UpdateProduct
    \/ Tick /\ UpdateProductByNameSize
    \/ Tick /\ DeleteProduct
    \/ Tick /\ DeleteProductByNameSize
    \/ Tick /\ LegacyDeleteProduct
    \/ Tick /\ ReduceStock
    \/ Tick /\ RestoreStock
    \/ Tick /\ CheckStock
    \/ Tick /\ LegacyCheckStock

Spec == Init /\ [][Next]_vars

(***************************************************************************)
(* Stock movements alone: an inventory stocked by two add_product calls,   *)
(* then any sequence of reduce_stock calls.                                *)
(***************************************************************************)
StartProducts ==
    {[name |-> name, size |-> size, stock |-> stock, price |-> 5, buying_price |-> 3,
      description |-> Empty, product_id |-> Empty] :
        name \in Names, size \in SizeArgs, stock \in {0, MaxStock}}

InitStock ==
    /\ \E p1 \in {p \in StartProducts : p.name = "A" /\ p.stock = MaxStock},
          p2 \in StartProducts :
          inventory = add_product(add_product(EmptyInventory, p1).file, p2).file
    /\ last = NoCall
    /\ calls = 0
    /\ NoExtras
    /\ NoInvoices
    /\ NoFiles

NextStock ==
    \/ ReduceStock /\ UNCHANGED <<calls, extra_vars>>
    \/ LegacyReduceStock /\ UNCHANGED <<calls, extra_vars>>

SpecStock == InitStock /\ [][NextStock]_vars

(***************************************************************************)
(* The invoice store as a state machine: invoices.csv, the last call with  *)
(* what it returned, and the numbers handed to saved invoices.             *)
(***************************************************************************)
Customers == {"Rahim", "Customer 66295"}

\* invoice numbers typed into the form instead of the proposed one
TypedNumbers ==
    {Empty,
     TChars(<<"I", "N", "V", "-", "7">>),
     TChars(<<"#", "S", "C", "-", "2", "0", "2", "5", "-", "9">>),
     TChars(<<"#", "S", "C", "-", "2", "0", "2", "5", "-", "A", "1">>)}

\* an invoice as the form hands it over: subtotal = sum(qty * price),
\* grand_total = subtotal - discount + delivery
InvoiceData(number, customer, items) ==
    LET sub == SumItems(ItemLists[items]) IN
    [invoice_number |-> number,
     date |-> TodayMDY,
     customer_name |-> PStr(TWord(customer)),
     customer_phone |-> PStr(Empty),
     customer_address |-> PStr(Empty),
     subtotal |-> PInt(sub),
     discount |-> PInt(1),
     delivery |-> PInt(2),
     grand_total |-> PInt(sub - 1 + 2),
     payment_method |-> TWord("Cash"),
     products |-> items,
     status |-> TWord("PAID"),
     original_invoice_no |-> Empty]

InvoiceUpdates ==
    {[key |-> "discount", value |-> PInt(0)],
     [key |-> "status", value |-> PStr(TWord("DUE"))],
     [key |-> "status", value |-> PStr(TWord("VOID"))]}

\* the statuses a caller may ask for: the enumerated ones and one that is not
StatusArgs == STATUSES \cup {"VOID"}

\* the numbers a caller may name: those in the file and one that is not
NumbersIn(f) ==
    {f.rows[i]["invoice_number"] : i \in DOMAIN f.rows} \cup {TChars(<<"X">>)}

InvoiceCall(op, args, file, ok, ret, warn, hash) ==
    /\ Len(file.rows) <= MaxInvoices
    /\ invoices' = file
    /\ inv_last' = [op |-> op, args |-> args, ok |-> ok, ret |-> ret,
                    warn |-> warn, hash |-> hash]
    /\ UNCHANGED <<inventory_vars, file_vars, extra_vars>>

NextNumber ==
    /\ InvoiceCall("next_number", NoInvoiceArgs, invoices, TRUE,
                   get_next_invoice_number(invoices), NoWarning, Empty)
    /\ UNCHANGED issued

LegacyNextNumber ==
    /\ InvoiceCall("legacy_next_number", NoInvoiceArgs, invoices, TRUE,
                   legacy_get_next_invoice_number(invoices), NoWarning, Empty)
    /\ UNCHANGED issued

SaveAs(numbered, number, customer, items) ==
    \E r \in {save_invoice(invoices, InvoiceData(number, customer, items))} :
    /\ InvoiceCall("save_invoice",
                   [NoInvoiceArgs EXCEPT !.invoice_number = number,
                                         !.customer_name = customer,
                                         !.products = items,
                                         !.numbered = numbered],
                   r.file, r.ok, r.ret, r.warn, r.hash)
    /\ issued' = IF numbered THEN Append(issued, number) ELSE issued

\* the form proposes get_next_invoice_number() and the invoice is saved
\* under that number
SaveInvoice ==
    \E customer \in Customers, items \in DOMAIN ItemLists :
        SaveAs(TRUE, get_next_invoice_number(invoices), customer, items)

\* the invoice is saved under a number typed over the proposed one
SaveTypedInvoice ==
    \E number \in TypedNumbers, customer \in Customers, items \in DOMAIN ItemLists :
        SaveAs(FALSE, number, customer, items)

UpdateInvoice ==
    \E number \in NumbersIn(invoices), u \in InvoiceUpdates :
        \E r \in {update_invoice(invoices, number, u.key, u.value)} :
        /\ InvoiceCall("update_invoice",
                       [NoInvoiceArgs EXCEPT !.invoice_number = number,
                                             !.key = u.key, !.value = u.value],
                       r.file, r.ok, Empty, NoWarning, Empty)
        /\ UNCHANGED issued

UpdateInvoiceStatus ==
    \E number \in NumbersIn(invoices), status \in StatusArgs :
        \E r \in {update_invoice_status(invoices, number, status)} :
        /\ InvoiceCall("update_invoice_status",
                       [NoInvoiceArgs EXCEPT !.invoice_number = number,
                                             !.key = "status",
                                             !.value = PStr(TWord(status))],
                       r.file, r.ok, Empty, NoWarning, Empty)
        /\ UNCHANGED issued

DeleteInvoice ==
    \E number \in NumbersIn(invoices) :
        \E r \in {delete_invoice(invoices, number)} :
        /\ InvoiceCall("delete_invoice",
                       [NoInvoiceArgs EXCEPT !.invoice_number = number],
                       r.file, r.ok,
                       IF r.removed.found THEN str(r.removed.row["invoice_number"])
                       ELSE Empty,
                       NoWarning, Empty)
        /\ UNCHANGED issued

CreateReturn ==
    \E number \in NumbersIn(invoices), items \in DOMAIN ItemLists :
        \E r \in {create_return_invoice(invoices, number, items)} :
        /\ InvoiceCall("create_return_invoice",
                       [NoInvoiceArgs EXCEPT !.invoice_number = number,
                                             !.products = items],
                       r.file, r.ok, r.ret, r.warn, r.hash)
        /\ UNCHANGED issued

InitInvoice ==
    /\ inventory = EmptyInventory
    /\ last = NoCall
    /\ calls = 0
    /\ NoExtras
    /\ NoInvoices
    /\ NoFiles

NextInvoice ==
    \/ Tick /\ NextNumber
    \/ Tick /\ LegacyNextNumber
    \/ Tick /\ SaveInvoice
    \/ Tick /\ SaveTypedInvoice
    \/ Tick /\ UpdateInvoice
    \/ Tick /\ UpdateInvoiceStatus
    \/ Tick /\ DeleteInvoice
    \/ Tick /\ CreateReturn

SpecInvoice == InitInvoice /\ [][NextInvoice]_vars

(***************************************************************************)
(* Numbering alone: invoices saved under the proposed number, deletions    *)
(* and returns.                                                            *)
(***************************************************************************)
NextNumbering ==
    \/ Tick /\ SaveInvoice
    \/ Tick /\ DeleteInvoice
    \/ Tick /\ CreateReturn

SpecNumbering == InitInvoice /\ [][NextNumbering]_vars

(***************************************************************************)
(* Schema migration: a file written under an older header, migrated any    *)
(* number of times.                                                        *)
(***************************************************************************)
INVOICE_NEW_COLUMNS ==
    <<[col |-> "status", default |-> PStr(TWord("PAID"))],
      [col |-> "original_invoice_no", default |-> PStr(Empty)],
      [col |-> "hash", default |-> PStr(Empty)]>>

EXPENSE_NEW_COLUMNS ==
    <<[col |-> "expense_id", default |-> PStr(Empty)],
      [col |-> "allocated", default |-> PBool(FALSE)]>>

\* cell texts of an older file: blank, a number, a word, a phone number, "NA"
LegacyCells ==
    {Empty, TInt(44), TWord("M"), TChars(<<"0", "1", "7">>), TWord("NA")}

LegacyHeaders ==
    {<<"customer_phone", "size">>, <<"customer_phone", "size", "status">>}

LegacyRow(cols, phone, size) ==
    [c \in Range(cols) |->
        IF c = "customer_phone" THEN phone
        ELSE IF c = "size" THEN size ELSE TWord("DUE")]

RECURSIVE SeqsUpTo(_, _)
SeqsUpTo(S, n) ==
    IF n = 0 THEN {<<>>}
    ELSE LET shorter == SeqsUpTo(S, n - 1) IN
         shorter \cup {Append(q, x) : q \in {r \in shorter : Len(r) = n - 1}, x \in S}

LegacyFiles ==
    {[cols |-> cols, rows |-> rows] :
        cols \in LegacyHeaders,
        rows \in UNION {SeqsUpTo({LegacyRow(cols, phone, size) :
                                     phone \in LegacyCells, size \in LegacyCells},
                                 MaxLegacyRows) : cols \in LegacyHeaders}}

FileCall(op, cols, data, file, ok, ret, id) ==
    /\ store' = file
    /\ out' = [op |-> op, cols |-> cols, data |-> data, ok |-> ok, ret |-> ret,
               id |-> id]
    /\ UNCHANGED <<inventory_vars, invoice_vars, calls, extra_vars>>

Migrate ==
    \E new_columns \in {INVOICE_NEW_COLUMNS, EXPENSE_NEW_COLUMNS} :
        \E r \in {migrate_schema(store, new_columns)} :
        /\ FileCall("migrate_schema", store.cols, new_columns, r.file, r.ok, <<>>, PNaN)
        /\ backup' = create_backup(store, backup)

InitMigrate ==
    /\ inventory = EmptyInventory
    /\ last = NoCall
    /\ calls = 0
    /\ NoExtras
    /\ NoInvoices
    /\ store \in {f \in LegacyFiles : \A i \in DOMAIN f.rows : DOMAIN f.rows[i] = Range(f.cols)}
    /\ backup = NoFile
    /\ out = NoFileCall

NextMigrate == Migrate

SpecMigrate == InitMigrate /\ [][NextMigrate]_vars

(***************************************************************************)
(* Whole-file write and read, and adding and listing expenses.             *)
(***************************************************************************)
ExpenseRecords ==
    {[c \in Range(EXPENSE_COLUMNS) |->
        CASE c = "expense_id" -> id
          [] c = "date" -> PStr(TodayMDY)
          [] c = "category" -> PStr(TWord("Courier"))
          [] c = "amount" -> PInt(100)
          [] c = "description" -> description
          [] c = "related_product" -> related_product
          [] OTHER -> PBool(FALSE)] :
        id \in {PStr(Empty), PStr(TExp(7))},
        description \in {PStr(Empty), PStr(TWord("Box"))},
        related_product \in {PStr(Empty), PStr(TWord("A"))}}

InventoryRecords ==
    {[c \in Range(COLUMNS) |->
        CASE c = "product_id" -> PStr(TSku(1))
          [] c = "name" -> PStr(TWord("A"))
          [] c = "description" -> description
          [] c = "size" -> size
          [] c = "price" -> PInt(5)
          [] c = "buying_price" -> PInt(3)
          [] c = "stock" -> PInt(1)
          [] c = "added_date" -> PStr(Today)
          [] OTHER -> PInt(0)] :
        description \in {PStr(Empty), PStr(TWord("Red"))},
        size \in {PStr(TInt(44)), PStr(TWord("M"))}}

InvoiceRecords ==
    {[c \in Range(INVOICE_COLUMNS) |->
        CASE c = "invoice_number" -> PStr(ResetNumber)
          [] c = "date" -> PStr(TodayMDY)
          [] c = "customer_name" -> PStr(TWord("Rahim"))
          [] c = "customer_phone" -> customer_phone
          [] c = "customer_address" -> PStr(TWord("Dhaka"))
          [] c = "subtotal" -> PInt(5)
          [] c = "discount" -> PInt(1)
          [] c = "delivery" -> PInt(2)
          [] c = "grand_total" -> PInt(6)
          [] c = "payment_method" -> PStr(TWord("Cash"))
          [] c = "transaction_id" -> transaction_id
          [] c = "items_json" -> PStr(TItems(1))
          [] c = "status" -> PStr(TWord("PAID"))
          [] c = "original_invoice_no" -> PStr(TWord("-"))
          [] OTHER -> PStr(TWord("d6331b65728e"))] :
        customer_phone \in {PStr(TChars(<<"0", "1", "7">>)), PStr(TWord("+88017"))},
        transaction_id \in {PStr(Empty), PStr(TWord("TX9"))}}

Schemas ==
    {[cols |-> COLUMNS, records |-> InventoryRecords],
     [cols |-> INVOICE_COLUMNS, records |-> InvoiceRecords],
     [cols |-> EXPENSE_COLUMNS, records |-> ExpenseRecords]}

WriteAll ==
    \E schema \in Schemas :
      \E data \in SeqsUpTo(schema.records, MaxRecords) :
        /\ FileCall("write_csv_safe", schema.cols, data,
                    write_csv_safe(data, schema.cols), TRUE, <<>>, PNaN)
        /\ UNCHANGED backup

ReadAll ==
    /\ FileCall("read_csv_safe", store.cols, <<>>, store, TRUE, read_csv_safe(store), PNaN)
    /\ UNCHANGED backup

AddExpense ==
    /\ store.cols = EXPENSE_COLUMNS
    /\ Len(store.rows) <= MaxRecords
    /\ \E data \in ExpenseRecords :
          \E r \in {add_expense(store, data)} :
          /\ FileCall("add_expense", store.cols, <<data>>, r.file, r.ok, <<>>, r.id)
          /\ UNCHANGED backup

GetExpenses ==
    /\ store.cols = EXPENSE_COLUMNS
    /\ FileCall("get_expenses", store.cols, <<>>, store, TRUE, get_expenses(store), PNaN)
    /\ UNCHANGED backup

InitRoundTrip ==
    /\ inventory = EmptyInventory
    /\ last = NoCall
    /\ calls = 0
    /\ NoExtras
    /\ NoInvoices
    /\ store = EmptyExpenses
    /\ backup = NoFile
    /\ out = NoFileCall

NextRoundTrip ==
    \/ WriteAll
    \/ ReadAll
    \/ AddExpense
    \/ GetExpenses

SpecRoundTrip == InitRoundTrip /\ [][NextRoundTrip]_vars

(***************************************************************************)
(* Properties of the inventory store.                                      *)
(***************************************************************************)
\* the rows of file f stored for (name, size), by the text of their cells
RowsFor(f, name, size) ==
    {i \in DOMAIN f.rows :
        f.rows[i]["name"] = TWord(name) /\ f.rows[i]["size"] = str(size)}

\* what a size cell stands for: a missing size, a number, or a word
SizeMeant(x) ==
    IF IsNAText(x) THEN Empty ELSE IF IsNumText(x) THEN TInt(x.n) ELSE x

\* the rows of file f that belong to product (name, size)
ProductRows(f, name, size) ==
    {i \in DOMAIN f.rows :
        f.rows[i]["name"] = TWord(name)
            /\ SizeMeant(f.rows[i]["size"]) = SizeMeant(str(size))}

NonNegativeStock ==
    \A i \in DOMAIN inventory.rows :
        IsNumText(inventory.rows[i]["stock"]) /\ inventory.rows[i]["stock"].n >= 0

\* a successful reduce_stock step: the product's stock goes to max(0, stock - qty),
\* which is also the value returned
ReduceFloors ==
    LET a == last'.args
        hit == RowsFor(inventory, a.name, a.size)
    IN (last'.op = "reduce_stock" /\ last'.ok) =>
          /\ hit # {}
          /\ last'.ret = Max(0, inventory.rows[Min(hit)]["stock"].n - a.qty)
          /\ \A i \in hit :
                /\ IsNumText(inventory'.rows[i]["stock"])
                /\ inventory'.rows[i]["stock"].n = last'.ret

\* C1: whatever reduce_stock calls are made on an inventory whose stocks are
\* all >= 0, every stored stock stays >= 0, also when more is requested than
\* there is; each successful call sets the product's stock to
\* max(0, stock - qty) and returns that value.
C1_StockFloor == [][NonNegativeStock => (NonNegativeStock' /\ ReduceFloors)]_vars

\* C1 witness: a reduce_stock call succeeded and left a product at stock 0
\* whose cumulative requested quantity exceeds any stock it was given
C1_Witness ==
    /\ last.op = "reduce_stock" /\ last.ok /\ last.ret = 0 /\ last.args.qty > 0
    /\ \E i \in RowsFor(inventory, last.args.name, last.args.size) :
          /\ inventory.rows[i]["stock"].n = 0
          /\ inventory.rows[i]["sold_quantity"].n > MaxStock

\* C2: no two rows of the inventory are stored for the same (name, size)
C2_OneRowPerNameSize ==
    \A i, j \in DOMAIN inventory.rows :
        (/\ i # j
         /\ inventory.rows[i]["name"] = inventory.rows[j]["name"]
         /\ SizeMeant(inventory.rows[i]["size"]) = SizeMeant(inventory.rows[j]["size"]))
            => FALSE

\* C3: a second add_product call with the arguments of the one just made
\* leaves the file as the first call left it, with exactly one row for the
\* product
C3_UpsertIdempotent ==
    [][(/\ last.op = "add_product" /\ last.ok
        /\ last'.op = "add_product" /\ last'.ok
        /\ last'.args = last.args)
          => (/\ inventory' = inventory
              /\ Cardinality(ProductRows(inventory', last'.args.name,
                                          last'.args.size)) = 1)]_vars

\* C4: add_product on a (name, size) that has a row returns the product_id of
\* that row and leaves it stored in the row
C4_IdStable ==
    [][(last'.op = "add_product" /\ last'.ok)
          => \A i \in ProductRows(inventory, last'.args.name, last'.args.size) :
                /\ last'.id = inventory.rows[i]["product_id"]
                /\ inventory'.rows[i]["product_id"] = inventory.rows[i]["product_id"]]_vars

(***************************************************************************)
(* Properties of the invoice store.                                        *)
(***************************************************************************)
\* the amounts of a stored row and the line items it holds
Amount(row, c) == NumOf(row[c])
LineItems(row) == ItemLists[row["items_json"].n]

\* C5: every row of invoices.csv has grand_total = subtotal - discount +
\* delivery and subtotal = the sum of qty * price over its line items
C5_InvoiceArithmetic ==
    \A i \in DOMAIN invoices.rows :
        LET row == invoices.rows[i] IN
        /\ \A c \in {"subtotal", "discount", "delivery", "grand_total"} : IsNumText(row[c])
        /\ Amount(row, "grand_total")
              = Amount(row, "subtotal") - Amount(row, "discount") + Amount(row, "delivery")
        /\ Amount(row, "subtotal") = SumItems(LineItems(row))

\* the rows of file f that store hash h
RowsWithHash(f, h) == {i \in DOMAIN f.rows : f.rows[i]["hash"] = h}

\* C6: a save computes the hash of (customer_name, line items, date), always
\* succeeds and appends the row; it warns of a duplicate, naming a stored
\* invoice with that hash, exactly when some stored row has that hash
C6_DuplicateWarning ==
    [][inv_last'.op = "save_invoice" =>
        LET a == inv_last'.args
            h == _compute_hash(PStr(TWord(a.customer_name)), TItems(a.products), TodayMDY)
            same == RowsWithHash(invoices, h)
            n == Len(invoices.rows)
        IN /\ inv_last'.ok
           /\ inv_last'.hash = h
           /\ Len(invoices'.rows) = n + 1
           /\ SubSeq(invoices'.rows, 1, n) = invoices.rows
           /\ invoices'.rows[n + 1]["invoice_number"] = a.invoice_number
           /\ invoices'.rows[n + 1]["hash"] = h
           /\ same # {} =>
                 /\ inv_last'.warn.dup
                 /\ \E i \in same :
                       invoices.rows[i]["invoice_number"] \in {inv_last'.warn.of, Empty}
           /\ same = {} => ~inv_last'.warn.dup]_vars

\* the invoice numbers stored in file f that are not empty, in file order
RECURSIVE StoredNumbers(_)
StoredNumbers(rows) ==
    IF rows = <<>> THEN <<>>
    ELSE (IF rows[1]["invoice_number"] = Empty THEN <<>>
          ELSE <<rows[1]["invoice_number"]>>) \o StoredNumbers(Tail(rows))

\* does a number read PREFIX-YEAR-SEQ, and the number that follows it
ParsesAsNumber(x) ==
    LET parts == Split(CharsOf(x), "-") IN Len(parts) = 3 /\ AllDigits(parts[3])
SeqOf(x) == ToInt(Split(CharsOf(x), "-")[3])
Successor(x) ==
    LET parts == Split(CharsOf(x), "-") IN
    TChars(parts[1] \o <<"-">> \o parts[2] \o <<"-">> \o Format03d(SeqOf(x) + 1))

IsNextNumberCall(call) == call.op \in {"next_number", "legacy_next_number"}

\* C7: next_number answers '#SC-<year>-001' when no stored number is
\* non-empty or the last non-empty one does not read PREFIX-YEAR-SEQ, and
\* PREFIX-YEAR-(SEQ+1) on three digits otherwise; asked right after the
\* invoice it numbered was saved, it answers that number's successor
C7_NextNumber ==
    [][IsNextNumberCall(inv_last') =>
        LET stored == StoredNumbers(invoices.rows) IN
        /\ inv_last'.ret =
              IF stored = <<>> \/ ~ParsesAsNumber(stored[Len(stored)]) THEN ResetNumber
              ELSE Successor(stored[Len(stored)])
        /\ (inv_last.op = "save_invoice" /\ inv_last.ok /\ inv_last.args.numbered)
              => inv_last'.ret = Successor(inv_last.args.invoice_number)]_vars

\* C8: of the numbers handed to saved invoices, each has a sequence number
\* strictly greater than every one handed out before it
C8_StrictlyIncreasing ==
    \A i, j \in DOMAIN issued : i < j => SeqOf(issued[i]) < SeqOf(issued[j])

(***************************************************************************)
(* Properties of the storage primitives.                                   *)
(***************************************************************************)
\* the names of the new columns that the header cols lacks, in order
RECURSIVE MissingFrom(_, _)
MissingFrom(cols, new_columns) ==
    IF new_columns = <<>> THEN <<>>
    ELSE (IF new_columns[1].col \in Range(cols) THEN <<>> ELSE <<new_columns[1].col>>)
            \o MissingFrom(cols, Tail(new_columns))

\* C9: migrate_schema succeeds, appends exactly the missing columns, keeps
\* every row and the content of every cell the file had, and a second run
\* with the same arguments leaves the file as the first run left it
C9_MigrationSafe ==
    [][out'.op = "migrate_schema" =>
        /\ out'.ok
        /\ store'.cols = store.cols \o MissingFrom(store.cols, out'.data)
        /\ Len(store'.rows) = Len(store.rows)
        /\ \A i \in DOMAIN store.rows : \A c \in Range(store.cols) :
              store'.rows[i][c] = store.rows[i][c]
        /\ migrate_schema(store', out'.data).file = store']_vars

\* are two records equal field for field over the columns cols
SameRecord(a, b, cols) == \A c \in Range(cols) : PyEq(a[c], b[c])

\* C10: read_csv_safe right after write_csv_safe returns the records written,
\* in order, every field equal to the value written; get_expenses right
\* after add_expense returns the added record with the same field values
C10_RoundTrip ==
    [][/\ (out.op = "write_csv_safe" /\ out'.op = "read_csv_safe") =>
             /\ Len(out'.ret) = Len(out.data)
             /\ \A i \in DOMAIN out.data : SameRecord(out'.ret[i], out.data[i], out.cols)
       /\ (out.op = "add_expense" /\ out.ok /\ out'.op = "get_expenses") =>
             \E i \in DOMAIN out'.ret :
                 SameRecord(out'.ret[i], [out.data[1] EXCEPT !["expense_id"] = out.id],
                            EXPENSE_COLUMNS)]_vars

(***************************************************************************)
(* Properties of the stock queries and of the matching by (name, size).    *)
(***************************************************************************)
\* C11: check_stock_availability leaves the inventory alone; with no row for
\* (name, size) it answers (false, 0); with a row of stock s it answers
\* (s >= qty, s); asked right after a successful reduce_stock of the same
\* product it answers the reduced stock
C11_CheckAvailability ==
    [][last'.op = "check_stock_availability" =>
        LET a == last'.args
            hit == RowsFor(inventory, a.name, a.size)
        IN
        /\ inventory' = inventory
        /\ hit = {} => (~last'.ok /\ last'.ret = 0)
        /\ (hit # {} /\ IsNumText(inventory.rows[Min(hit)]["stock"])) =>
              LET s == NumOf(inventory.rows[Min(hit)]["stock"]) IN
              /\ last'.ret = s
              /\ last'.ok = (s >= a.qty)
        /\ (last.op = "reduce_stock" /\ last.ok /\ last.args.name = a.name
                /\ last.args.size = a.size) => last'.ret = last.ret]_vars

(***************************************************************************)
(* The size argument as callers pass it: the number 44 or the string '44'. *)
(* An inventory stocked by two add_product calls, then any sequence of     *)
(* lookups, stock reductions, upserts and deletions by (name, size).       *)
(***************************************************************************)
TypedSizes == {PInt(44), PStr(TInt(44))}

SizedCheckStock ==
    \E name \in Names, size \in TypedSizes, required_qty \in 0..MaxQty :
        /\ Call("check_stock_availability",
                [NoArgs EXCEPT !.name = name, !.size = size, !.qty = required_qty],
                check_stock_availability(inventory, name, size, required_qty))
        /\ UNCHANGED <<calls, extra_vars>>

SizedLegacyCheckStock ==
    \E name \in Names, size \in TypedSizes, required_qty \in 0..MaxQty :
        /\ Call("check_stock_availability",
                [NoArgs EXCEPT !.name = name, !.size = size, !.qty = required_qty],
                legacy_check_stock_availability(inventory, name, size, required_qty))
        /\ UNCHANGED <<calls, extra_vars>>

SizedReduceStock ==
    \E name \in Names, size \in TypedSizes, quantity \in 0..MaxQty :
        \E r \in {reduce_stock(inventory, name, size, quantity)} :
        /\ Bounded(r.file)
        /\ Call("reduce_stock",
                [NoArgs EXCEPT !.name = name, !.size = size, !.qty = quantity], r)
        /\ UNCHANGED <<calls, extra_vars>>

SizedLegacyReduceStock ==
    \E name \in Names, size \in TypedSizes, quantity \in 0..MaxQty :
        \E r \in {legacy_reduce_stock(inventory, name, size, quantity)} :
        /\ Bounded(r.file)
        /\ Call("reduce_stock",
                [NoArgs EXCEPT !.name = name, !.size = size, !.qty = quantity], r)
        /\ UNCHANGED <<calls, extra_vars>>

SizedAddProduct ==
    \E name \in Names, size \in TypedSizes, stock \in 0..MaxStock :
        \E product \in {[name |-> name, size |-> size, stock |-> stock, price |-> 5,
                         buying_price |-> 3, description |-> Empty,
                         product_id |-> Empty]} :
        \E r \in {add_product(inventory, product)} :
        /\ Bounded(r.file)
        /\ Call("add_product", ProductArgs(product), r)
        /\ UNCHANGED <<calls, extra_vars>>

SizedDeleteProduct ==
    \E name \in Names, size \in TypedSizes :
        /\ Call("delete_product_by_name_size",
                [NoArgs EXCEPT !.name = name, !.size = size],
                delete_product_by_name_size(inventory, name, size))
        /\ UNCHANGED <<calls, extra_vars>>

NextSize ==
    \/ SizedCheckStock
    \/ SizedLegacyCheckStock
    \/ SizedReduceStock
    \/ SizedLegacyReduceStock
    \/ SizedAddProduct
    \/ SizedDeleteProduct

SpecSize == InitStock /\ [][NextSize]_vars

\* C12: when the inventory holds a row for (name, 44), whatever its other
\* rows, each operation called with the size 44 or '44' acts on that row:
\* check_stock_availability reports its stock, reduce_stock succeeds,
\* add_product updates it in place and returns its id,
\* delete_product_by_name_size removes it
C12_SizeNormalized ==
    [][LET a == last'.args
           hit == RowsFor(inventory, a.name, a.size)
       IN
       (a.size \in TypedSizes /\ hit # {}) =>
          /\ last'.op = "check_stock_availability" =>
                last'.ret = NumOf(inventory.rows[Min(hit)]["stock"])
          /\ last'.op = "reduce_stock" => last'.ok
          /\ last'.op = "add_product" =>
                /\ Len(inventory'.rows) = Len(inventory.rows)
                /\ last'.id = inventory.rows[Min(hit)]["product_id"]
          /\ last'.op = "delete_product_by_name_size" =>
                Len(inventory'.rows) = Len(inventory.rows) - Cardinality(hit)]_vars

(***************************************************************************)
(* Sales and returns: an inventory stocked by two add_product calls, then  *)
(* any sequence of reduce_stock and restore_stock calls; prior keeps the   *)
(* file as it was before the last of them.                                 *)
(***************************************************************************)
NextReturns ==
    \/ ReduceStock /\ prior' = inventory /\ UNCHANGED <<calls, category_vars, lock_vars, job_vars>>
    \/ RestoreStock /\ prior' = inventory /\ UNCHANGED <<calls, category_vars, lock_vars, job_vars>>

SpecReturns == InitStock /\ [][NextReturns]_vars

\* the number in cell c of row i of file f
CellNum(f, i, c) == NumOf(f.rows[i][c])

\* C13: restore_stock on a product of stock s and sold quantity d leaves it
\* with stock s + q and sold quantity max(0, d - q); called right after
\* reduce_stock with the same arguments it leaves the product with the stock
\* and the sold quantity it had before the reduce_stock
C13_RestoreInverts ==
    [][last'.op = "restore_stock" =>
        LET a == last'.args
            hit == RowsFor(inventory, a.name, a.size)
        IN
        \A i \in hit :
            /\ CellNum(inventory', i, "stock") = CellNum(inventory, i, "stock") + a.qty
            /\ CellNum(inventory', i, "sold_quantity") =
                  Max(0, CellNum(inventory, i, "sold_quantity") - a.qty)
            /\ (last.op = "reduce_stock" /\ last.args = a) =>
                  /\ CellNum(inventory', i, "stock") = CellNum(prior, i, "stock")
                  /\ CellNum(inventory', i, "sold_quantity") =
                        CellNum(prior, i, "sold_quantity")]_vars

(***************************************************************************)
(* Properties of invoice deletion, returns and status.                     *)
(***************************************************************************)
\* the rows of file f stored under the non-empty invoice number n
RowsNumbered(f, n) ==
    {i \in DOMAIN f.rows : n # Empty /\ f.rows[i]["invoice_number"] = n}

\* C14: delete_invoice(n) on a store with a row numbered n returns that row,
\* leaves the other rows as they were, in order, and get_invoice(n) then
\* finds nothing; with no row numbered n it returns nothing and leaves the
\* store as it was
C14_DeleteInvoice ==
    [][inv_last'.op = "delete_invoice" =>
        LET n == inv_last'.args.invoice_number
            has == RowsNumbered(invoices, n)
        IN
        IF has = {} THEN ~inv_last'.ok /\ invoices' = invoices
        ELSE /\ inv_last'.ok
             /\ inv_last'.ret = n
             /\ invoices' = DropRows(invoices, has)
             /\ ~get_invoice(invoices', n).found]_vars

\* C15: after a deletion by (name, size) no row of that product remains, and
\* the rows of every other product are all still there, in order, each cell
\* as it was
C15_DeleteProduct ==
    [][last'.op = "delete_product_by_name_size" =>
        LET a == last'.args
            gone == ProductRows(inventory, a.name, a.size)
        IN
        /\ ProductRows(inventory', a.name, a.size) = {}
        /\ inventory' = DropRows(inventory, gone)]_vars

(***************************************************************************)
(* The category vocabulary: any sequence of get, add and delete calls, on  *)
(* ExpenseService with or without a config_manager and on DataManager.     *)
(***************************************************************************)
CategoryArgs == {"Customs", "Other", "New Test Cat"}

CategoryCall(op, category, config_manager, r, ret) ==
    /\ config' = r.config
    /\ default_categories' = r.default_categories
    /\ cat_last' = [op |-> op, category |-> category, config_manager |-> config_manager,
                    ok |-> r.ok, ret |-> ret]
    /\ UNCHANGED <<inventory_vars, invoice_vars, file_vars, calls, history_vars, lock_vars,
                 job_vars>>

GetCategories ==
    \E config_manager \in BOOLEAN :
        CategoryCall("get_categories", "", config_manager,
                     CategoryResult(config, default_categories, TRUE),
                     get_categories(config, default_categories, config_manager))

AddCategory ==
    \E category \in CategoryArgs, config_manager \in BOOLEAN :
        CategoryCall("add_category", category, config_manager,
                     add_category(config, default_categories, category, config_manager),
                     <<>>)

DeleteCategory ==
    \E category \in CategoryArgs, config_manager \in BOOLEAN :
        CategoryCall("delete_category", category, config_manager,
                     delete_category(config, default_categories, category,
                                     config_manager),
                     <<>>)

GetExpenseCategories ==
    CategoryCall("get_expense_categories", "", TRUE,
                 CategoryResult(config, default_categories, TRUE),
                 get_expense_categories(config))

AddExpenseCategory ==
    \E category \in CategoryArgs :
        CategoryCall("add_expense_category", category, TRUE,
                     add_expense_category(config, default_categories, category), <<>>)

DeleteExpenseCategory ==
    \E category \in CategoryArgs :
        CategoryCall("delete_expense_category", category, TRUE,
                     delete_expense_category(config, default_categories, category),
                     <<>>)

InitCategories ==
    /\ inventory = EmptyInventory
    /\ last = NoCall
    /\ calls = 0
    /\ NoExtras
    /\ NoInvoices
    /\ NoFiles

NextCategories ==
    \/ GetCategories
    \/ AddCategory
    \/ DeleteCategory
    \/ GetExpenseCategories
    \/ AddExpenseCategory
    \/ DeleteExpenseCategory

SpecCategories == InitCategories /\ [][NextCategories]_vars

\* how many times category stands in the list cats
Count(cats, category) == Cardinality({i \in DOMAIN cats : cats[i] = category})

\* the categories a get call of the same class would list
Listed(call, cfg, dflt) ==
    IF call.op \in {"add_category", "delete_category"}
    THEN get_categories(cfg, dflt, call.config_manager)
    ELSE get_expense_categories(cfg)

\* C16: add of an unlisted category returns true and the category is then
\* listed exactly once; delete of a listed category returns true and it is
\* then listed no more; add of a listed and delete of an unlisted category
\* return false and change nothing; no call changes the built-in default list
C16_CategorySet ==
    [][/\ default_categories' = DEFAULT_CATEGORIES
       /\ (cat_last'.op \in {"add_category", "add_expense_category"}
               /\ cat_last'.config_manager) =>
             LET c == cat_last'.category
                 before == Listed(cat_last', config, default_categories)
                 after == Listed(cat_last', config', default_categories')
             IN IF c \in Range(before)
                THEN ~cat_last'.ok /\ config' = config /\ after = before
                ELSE cat_last'.ok /\ Count(after, c) = 1
       /\ (cat_last'.op \in {"delete_category", "delete_expense_category"}
               /\ cat_last'.config_manager) =>
             LET c == cat_last'.category
                 before == Listed(cat_last', config, default_categories)
                 after == Listed(cat_last', config', default_categories')
             IN IF c \notin Range(before)
                THEN ~cat_last'.ok /\ config' = config /\ after = before
                ELSE cat_last'.ok /\ Count(after, c) = 0]_vars

(***************************************************************************)
(* The expense ledger: expenses added, listed, and deleted by their        *)
(* visible fields.                                                         *)
(***************************************************************************)
DeleteExpenseByFields ==
    /\ store.cols = EXPENSE_COLUMNS
    /\ \E row_data \in ExpenseRecords :
          \E r \in {delete_expense_by_fields(store, row_data)} :
          /\ FileCall("delete_expense_by_fields", store.cols, <<row_data>>, r.file, r.ok,
                      <<>>, PNaN)
          /\ UNCHANGED backup

NextExpenses ==
    \/ AddExpense
    \/ GetExpenses
    \/ DeleteExpenseByFields

SpecExpenses == InitRoundTrip /\ [][NextExpenses]_vars

\* the rows of file f whose date, category, amount and description are those
\* of row_data
RowsWithFields(f, row_data) ==
    {i \in DOMAIN f.rows :
        \A c \in {"date", "category", "amount", "description"} :
            f.rows[i][c] = str(row_data[c])}

\* C17: a deletion by fields that returns true has removed every row with the
\* given date, category, amount and description, as many as there were, and
\* left the other rows as they were, so that none with these fields is
\* listed afterwards
C17_DeleteByFields ==
    [][(out'.op = "delete_expense_by_fields" /\ out'.ok) =>
        LET row_data == out'.data[1] IN
        /\ store' = DropRows(store, RowsWithFields(store, row_data))
        /\ RowsWithFields(store', row_data) = {}]_vars

\* the row create_return_invoice appended to the store
ReturnRow == invoices'.rows[Len(invoices'.rows)]

\* create_return_invoice on a number no invoice has returns false and leaves
\* the store as it was; on the number of a stored invoice it returns true and
\* appends one row with payment_method 'Refund' and original_invoice_no the
\* given number
ReturnAppends ==
    LET n == inv_last'.args.invoice_number IN
    IF RowsNumbered(invoices, n) = {}
    THEN ~inv_last'.ok /\ invoices' = invoices
    ELSE /\ inv_last'.ok
         /\ Len(invoices'.rows) = Len(invoices.rows) + 1
         /\ SubSeq(invoices'.rows, 1, Len(invoices.rows)) = invoices.rows
         /\ ReturnRow["payment_method"] = TWord("Refund")
         /\ ReturnRow["original_invoice_no"] = n
         /\ IsNumText(ReturnRow["subtotal"])
         /\ IsNumText(ReturnRow["grand_total"])

StatusAsked == inv_last'.args.value.s

\* the stored invoices all have one of the enumerated statuses
StatusEnumerated(f) ==
    \A i \in DOMAIN f.rows : \E st \in STATUSES : f.rows[i]["status"] = TWord(st)

\* the file with the status cell of the rows numbered n set, nothing else
WithStatus(f, n, status) ==
    [f EXCEPT !.rows = [i \in DOMAIN f.rows |->
        IF i \in RowsNumbered(f, n)
        THEN [f.rows[i] EXCEPT !["status"] = status]
        ELSE f.rows[i]]]

\* C19: update_invoice_status with a status outside PAID, PARTIAL, DUE
\* returns false and leaves the store unchanged; with one of the three, on
\* the number of a stored invoice, it returns true and changes the status
\* cell of that invoice and nothing else; and after every save, update or
\* status update every stored invoice has one of the three statuses
C19_UpdateStatus ==
    [][/\ inv_last'.op = "update_invoice_status" =>
            LET n == inv_last'.args.invoice_number IN
            IF \A st \in STATUSES : StatusAsked # TWord(st)
            THEN ~inv_last'.ok /\ invoices' = invoices
            ELSE RowsNumbered(invoices, n) # {} =>
                    /\ inv_last'.ok
                    /\ invoices' = WithStatus(invoices, n, StatusAsked)
       /\ inv_last'.op \in {"save_invoice", "update_invoice", "update_invoice_status"}
            => StatusEnumerated(invoices')]_vars

(***************************************************************************)
(* FileLock: processes entering and leaving `with FileLock(path)` on one   *)
(* path, on Windows (msvcrt.locking) or on Unix (fcntl.flock).             *)
(***************************************************************************)
\* msvcrt.locking(fd, LK_LOCK, 1) tries once a second and raises OSError
\* after this many failed attempts
LK_LOCK_TRIES == 10

LockStep(p, at, h, held, failed) ==
    /\ pc' = [pc EXCEPT ![p] = at]
    /\ handle' = [handle EXCEPT ![p] = h]
    /\ holder' = held
    /\ tries' = [tries EXCEPT ![p] = failed]
    /\ UNCHANGED <<inventory_vars, invoice_vars, file_vars, calls, history_vars,
                   category_vars, os_name, job_vars>>

\* FileLock(path) is constructed with file = None and __enter__ opens the path
Open(p) ==
    /\ pc[p] \in {"out", "raised"}
    /\ LockStep(p, "enter", "open", holder, 0)

\* open() raises (mode 'r+' on a path that does not exist): no handle is kept
OpenRaises(p) ==
    /\ pc[p] \in {"out", "raised"}
    /\ LockStep(p, "raised", "None", holder, 0)

\* the lock is free: __enter__ takes it and returns the handle to the block
Lock(p) ==
    /\ pc[p] = "enter" /\ holder = "None"
    /\ LockStep(p, "block", "open", p, 0)

\* Windows, lock held by another handle: the attempt fails and is repeated
\* after a second; fcntl.flock(LOCK_EX) just waits, which is no step
LockRetry(p) ==
    /\ pc[p] = "enter" /\ holder # "None" /\ os_name = "nt"
    /\ tries[p] + 1 < LK_LOCK_TRIES
    /\ LockStep(p, "enter", "open", holder, tries[p] + 1)

\* the locking call raises inside __enter__: OSError of the last msvcrt
\* attempt, or on Unix an OSError of flock or the exception of a signal
\* handler (KeyboardInterrupt) while it waits; __exit__ is not run for an
\* exception of __enter__, the handle stays as it is
LockRaises(p) ==
    /\ pc[p] = "enter"
    /\ os_name = "nt" => holder # "None" /\ tries[p] + 1 = LK_LOCK_TRIES
    /\ LockStep(p, "raised", "open", holder, 0)

\* the block ends, normally or with an exception: __exit__ unlocks, closes
\* the handle and returns False, so an exception goes on to the caller
Exit(p, exc) ==
    /\ pc[p] = "block"
    /\ LockStep(p, IF exc THEN "raised" ELSE "out",
                IF handle[p] = "open" THEN "closed" ELSE handle[p],
                IF handle[p] = "open" /\ holder = p THEN "None" ELSE holder, 0)

InitLock ==
    /\ inventory = EmptyInventory
    /\ last = NoCall
    /\ calls = 0
    /\ NoHistory /\ NoCategoryCalls
    /\ os_name \in {"nt", "posix"}
    /\ NoLocks
    /\ NoJobs
    /\ NoInvoices
    /\ NoFiles

NextLock ==
    \/ \E p \in Procs : Open(p)
    \/ \E p \in Procs : OpenRaises(p)
    \/ \E p \in Procs : Lock(p)
    \/ \E p \in Procs : LockRetry(p)
    \/ \E p \in Procs : LockRaises(p)
    \/ \E p \in Procs, exc \in BOOLEAN : Exit(p, exc)

SpecLock == InitLock /\ [][NextLock]_vars

\* the processes inside a with block hold the lock, so there is at most one
MutualExclusion ==
    /\ \A p \in Procs : pc[p] = "block" => holder = p /\ handle[p] = "open"
    /\ Cardinality({p \in Procs : pc[p] = "block"}) <= 1

\* a process outside the with statement holds no lock and no open handle
Released ==
    \A p \in Procs : pc[p] \in {"out", "raised"} =>
        holder # p /\ handle[p] # "open"

\* a process that finds the lock held stays in acquire
Blocks ==
    \A p \in Procs : pc[p] = "enter" /\ holder # "None" => pc'[p] = "enter"

\* C20: at most one process at a time is inside `with FileLock(path)`, a
\* second acquire waits while another process holds the lock, and a process
\* that has left acquire or the block, by return or by an exception raised
\* in the block or during locking, holds no lock and no open file handle
C20_FileLock ==
    [][MutualExclusion' /\ Blocks /\ Released']_vars

(***************************************************************************)
(* Two processes calling the inventory store on one inventory.csv.  No     *)
(* store method takes FileLock, so a call is its reads of the file and     *)
(* then its write of the file, and the steps of two calls interleave.      *)
(* prior keeps the file as it was before the two calls.                    *)
(***************************************************************************)
\* the products a process adds without bringing an id
NewProducts == {p \in Products : p.product_id = Empty /\ p.price = 5}

\* add_product reaches generate_product_id: no row matched, or the matched
\* row has no id
NeedsId(f, product) ==
    LET df == astype_str(read_csv(f), "size")
        mask == NameSizeMask(df, product.name, product.size)
    IN IF mask = {} THEN product.product_id = Empty
       ELSE LET found == df.rows[Min(mask)]["product_id"]
            IN isna(found) \/ found = PStr(Empty)

ProductOf(args) ==
    [name |-> args.name, size |-> args.size, stock |-> args.stock,
     price |-> args.price, buying_price |-> args.buying_price,
     description |-> args.description, product_id |-> args.product_id]

JobStep(p, j) ==
    /\ job' = [job EXCEPT ![p] = j]
    /\ UNCHANGED <<invoice_vars, file_vars, calls, history_vars, category_vars, lock_vars>>

\* df = pd.read_csv(self.inventory_file) of reduce_stock
ReadForReduce(p) ==
    \E name \in Names, size \in SizeArgs, quantity \in 0..MaxQty :
        /\ job[p].at = "idle"
        /\ JobStep(p, [at |-> "read", op |-> "reduce_stock",
                       args |-> [NoArgs EXCEPT !.name = name, !.size = size,
                                               !.qty = quantity],
                       df |-> inventory, ids |-> NoFile])
        /\ UNCHANGED inventory_vars

\* df = pd.read_csv(self.inventory_file) of add_product
ReadForAdd(p) ==
    \E product \in NewProducts :
        /\ job[p].at = "idle"
        /\ JobStep(p, [at |-> "read", op |-> "add_product",
                       args |-> ProductArgs(product),
                       df |-> inventory, ids |-> NoFile])
        /\ UNCHANGED inventory_vars

\* the pd.read_csv of generate_product_id, called from add_product
ReadIds(p) ==
    /\ job[p].at = "read" /\ job[p].op = "add_product"
    /\ NeedsId(job[p].df, ProductOf(job[p].args))
    /\ JobStep(p, [job[p] EXCEPT !.at = "ids", !.ids = inventory])
    /\ UNCHANGED inventory_vars

\* what the call computes from what it read
JobResult(j) ==
    IF j.op = "reduce_stock"
    THEN reduce_stock(j.df, j.args.name, j.args.size, j.args.qty)
    ELSE add_product_reading(j.df, j.ids, ProductOf(j.args))

\* df.to_csv(self.inventory_file, index=False) and the return; reduce_stock
\* that found no row returns without writing
WriteBack(p) ==
    /\ \/ job[p].at = "ids"
       \/ /\ job[p].at = "read"
          /\ job[p].op = "add_product" => ~NeedsId(job[p].df, ProductOf(job[p].args))
    /\ \E r \in {JobResult(job[p])} :
        /\ Bounded(r.file)
        /\ inventory' = IF r.ok THEN r.file ELSE inventory
        /\ last' = [op |-> job[p].op, args |-> job[p].args, ok |-> r.ok,
                    ret |-> r.ret, id |-> r.id]
    /\ JobStep(p, [job[p] EXCEPT !.at = "done"])

SharedFiles ==
    {EmptyInventory}
        \cup {add_product(EmptyInventory, p).file :
                p \in {q \in StartProducts : q.name = "A" /\ q.stock = MaxStock}}

InitShared ==
    /\ inventory \in SharedFiles
    /\ prior = inventory
    /\ last = NoCall
    /\ calls = 0
    /\ NoCategoryCalls /\ os_name = "posix" /\ NoLocks /\ NoJobs
    /\ NoInvoices
    /\ NoFiles

NextShared ==
    \/ \E p \in Procs : ReadForReduce(p)
    \/ \E p \in Procs : ReadForAdd(p)
    \/ \E p \in Procs : ReadIds(p)
    \/ \E p \in Procs : WriteBack(p)

SpecShared == InitShared /\ [][NextShared]_vars

\* both processes have finished a call of operation op
BothDone(op) == \A p \in Procs : job[p].at = "done" /\ job[p].op = op

\* the file after the call of process p and then the call of process q, on
\* the file as it was
InOrder(p, q) ==
    LET one == JobResult([job[p] EXCEPT !.df = prior, !.ids = prior])
        f1 == IF one.ok THEN one.file ELSE prior
        two == JobResult([job[q] EXCEPT !.df = f1, !.ids = f1])
    IN IF two.ok THEN two.file ELSE f1

\* C21: two concurrent reduce_stock calls on one product leave the file as
\* the two calls made one after the other, in one order or the other, would
\* leave it: no update is lost
C21_ReduceSerialized ==
    (/\ BothDone("reduce_stock")
     /\ job["p1"].args.name = job["p2"].args.name
     /\ job["p1"].args.size = job["p2"].args.size)
        => inventory \in {InOrder("p1", "p2"), InOrder("p2", "p1")}

\* the rows of file f that the file as it was did not have
AddedRows(f) == {i \in DOMAIN f.rows : i > Len(prior.rows)}

\* C22: two concurrent add_product calls for two new products of different
\* names leave both rows in the file, under different product ids
C22_ConcurrentIds ==
    (/\ BothDone("add_product")
     /\ job["p1"].args.name # job["p2"].args.name
     /\ \A i \in DOMAIN prior.rows :
            \A p \in Procs : prior.rows[i]["name"] # TWord(job[p].args.name))
        => /\ \A p \in Procs : \E i \in AddedRows(inventory) :
                inventory.rows[i]["name"] = TWord(job[p].args.name)
           /\ \A i, k \in DOMAIN inventory.rows :
                i # k => inventory.rows[i]["product_id"] # inventory.rows[k]["product_id"]

(***************************************************************************)
(* A rewrite of a store file seen from another process.  df.to_csv(path)   *)
(* opens the path for writing, which empties it, writes the header and the *)
(* rows into it and closes it; nothing is written aside and renamed.       *)
(* prior keeps the file as it was before the rewrite, job[p].df the        *)
(* content being written.                                                  *)
(***************************************************************************)
RewriteStep(p, j, f) ==
    /\ job' = [job EXCEPT ![p] = j]
    /\ store' = f
    /\ UNCHANGED <<inventory_vars, invoice_vars, calls, category_vars, lock_vars, backup>>

\* write_csv_safe is called and to_csv opens the file: the file is empty
OpenForWrite(p) ==
    \E schema \in Schemas :
      \E data \in SeqsUpTo(schema.records, MaxRecords) :
        /\ \A q \in Procs : job[q].at = "idle"
        /\ RewriteStep(p, [NoJob EXCEPT !.at = "writing", !.op = "write_csv_safe",
                                        !.df = write_csv_safe(data, schema.cols)],
                       NoFile)
        /\ prior' = store
        /\ out' = [op |-> "open", cols |-> schema.cols, data |-> data, ok |-> TRUE,
                   ret |-> <<>>, id |-> PNaN]

\* the next part of the content reaches the file: the header, then a row
Flush(p) ==
    /\ job[p].at = "writing" /\ store # job[p].df
    /\ RewriteStep(p, job[p],
                   IF store.cols = <<>> THEN [job[p].df EXCEPT !.rows = <<>>]
                   ELSE [store EXCEPT !.rows =
                            Append(store.rows, job[p].df.rows[Len(store.rows) + 1])])
    /\ UNCHANGED <<prior, out>>

\* the file is closed with all of the content in it; write_csv_safe returns True
CloseWrite(p) ==
    /\ job[p].at = "writing"
    /\ RewriteStep(p, [job[p] EXCEPT !.at = "done"], job[p].df)
    /\ out' = [out EXCEPT !.op = "write_csv_safe", !.ok = TRUE]
    /\ UNCHANGED prior

\* the write raises part-way (disk full, process killed): write_csv_safe
\* catches it and returns False, the file stays as far as it was written
FailWrite(p) ==
    /\ job[p].at = "writing" /\ store # job[p].df
    /\ RewriteStep(p, [job[p] EXCEPT !.at = "failed"], store)
    /\ out' = [out EXCEPT !.op = "write_csv_safe", !.ok = FALSE]
    /\ UNCHANGED prior

\* read_csv_safe in another process
ReadDuring ==
    /\ out' = [op |-> "read_csv_safe", cols |-> store.cols, data |-> <<>>, ok |-> TRUE,
               ret |-> read_csv_safe(store), id |-> PNaN]
    /\ UNCHANGED <<inventory_vars, invoice_vars, calls, category_vars, lock_vars,
                   store, backup, job_vars, prior>>

InitRewrite ==
    /\ inventory = EmptyInventory
    /\ last = NoCall
    /\ calls = 0
    /\ NoCategoryCalls /\ os_name = "posix" /\ NoLocks /\ NoJobs
    /\ NoInvoices
    /\ \E schema \in Schemas : \E data \in SeqsUpTo(schema.records, 1) :
          store = write_csv_safe(data, schema.cols)
    /\ prior = store
    /\ backup = NoFile
    /\ out = NoFileCall

NextRewrite ==
    \/ \E p \in Procs : OpenForWrite(p)
    \/ \E p \in Procs : Flush(p)
    \/ \E p \in Procs : CloseWrite(p)
    \/ \E p \in Procs : FailWrite(p)
    \/ ReadDuring

SpecRewrite == InitRewrite /\ [][NextRewrite]_vars

\* the content a rewrite is writing, has written or has failed to write
Rewritten == {job[p].df : p \in {q \in Procs : job[q].at # "idle"}}

\* C23: a read_csv_safe made while a rewrite of the file is in progress, or
\* after it failed part-way, returns the records of the complete old content
\* or of the complete new content
C23_AtomicRewrite ==
    [][out'.op = "read_csv_safe" =>
        out'.ret \in {read_csv_safe(f) : f \in {prior} \cup Rewritten}]_vars

(***************************************************************************)
(* Keyed calls on the three stores, each holding what earlier calls left:  *)
(* job["p1"] names the call just made.                                     *)
(***************************************************************************)
KeyedCall(op) ==
    /\ calls < MaxKeyed
    /\ calls' = calls + 1
    /\ job' = [job EXCEPT !["p1"] = [NoJob EXCEPT !.at = "done", !.op = op]]
    /\ UNCHANGED <<history_vars, category_vars, lock_vars>>

KeyedDeleteProduct == DeleteProduct /\ KeyedCall("delete_product")

KeyedUpdateProduct == UpdateProduct /\ KeyedCall("update_product")

KeyedInvoiceCall(op, number, u, file, ok) ==
    /\ invoices' = file
    /\ inv_last' = [NoInvoiceCall EXCEPT
                        !.op = op, !.ok = ok,
                        !.args = [NoInvoiceArgs EXCEPT !.invoice_number = number,
                                                       !.key = u.key, !.value = u.value]]
    /\ KeyedCall(op)
    /\ UNCHANGED <<issued, inventory_vars, file_vars>>

KeyedUpdateInvoice ==
    \E number \in NumbersIn(invoices), u \in InvoiceUpdates :
        \E r \in {update_invoice(invoices, number, u.key, u.value)} :
            KeyedInvoiceCall("update_invoice", number, u, r.file, r.ok)

KeyedDeleteInvoice ==
    \E number \in NumbersIn(invoices) :
        \E r \in {delete_invoice(invoices, number)} :
            KeyedInvoiceCall("delete_invoice", number, [key |-> "", value |-> PNaN],
                             r.file, r.removed.found)

GetInvoice ==
    \E number \in NumbersIn(invoices) :
        KeyedInvoiceCall("get_invoice", number, [key |-> "", value |-> PNaN],
                         invoices, get_invoice(invoices, number).found)

\* the expense ids a caller may name: the first two given out and one never given
ExpenseIds == {PStr(TExp(1)), PStr(TExp(2)), PStr(TExp(9))}

KeyedExpenseCall(op, expense_id, r) ==
    /\ store' = r.file
    /\ out' = [NoFileCall EXCEPT !.op = op, !.ok = r.ok, !.id = expense_id]
    /\ KeyedCall(op)
    /\ UNCHANGED <<backup, inventory_vars, invoice_vars>>

UpdateExpense ==
    \E expense_id \in ExpenseIds :
        KeyedExpenseCall("update_expense", expense_id,
                         update_expense(store, expense_id, "amount", PInt(50)))

DeleteExpense ==
    \E expense_id \in ExpenseIds :
        KeyedExpenseCall("delete_expense", expense_id, delete_expense(store, expense_id))

\* the stores as earlier calls left them
KeyedInventories ==
    {EmptyInventory}
        \cup {add_product(add_product(EmptyInventory, p1).file, p2).file :
                p1 \in {q \in StartProducts : q.name = "A" /\ q.stock = MaxStock
                                                /\ q.size = PStr(TInt(44))},
                p2 \in {q \in StartProducts : q.name = "B" /\ q.stock = 0
                                                /\ q.size # PStr(TInt(44))}}

KeyedInvoices ==
    {EmptyInvoices}
        \cup {save_invoice(EmptyInvoices, InvoiceData(ResetNumber, "Customer 66295", 1)).file}

KeyedExpenses ==
    {EmptyExpenses}
        \cup {add_expense(add_expense(EmptyExpenses, e).file, e).file :
                e \in {x \in ExpenseRecords : x["expense_id"] = PStr(Empty)
                                                /\ x["related_product"] = PStr(Empty)}}

InitKeyed ==
    /\ inventory \in KeyedInventories
    /\ last = NoCall
    /\ calls = 0
    /\ NoExtras
    /\ invoices \in KeyedInvoices
    /\ inv_last = NoInvoiceCall
    /\ issued = <<>>
    /\ store \in KeyedExpenses
    /\ backup = NoFile
    /\ out = NoFileCall

NextKeyed ==
    \/ KeyedDeleteProduct
    \/ KeyedUpdateProduct
    \/ KeyedUpdateInvoice
    \/ KeyedDeleteInvoice
    \/ GetInvoice
    \/ UpdateExpense
    \/ DeleteExpense

SpecKeyed == InitKeyed /\ [][NextKeyed]_vars

\* the call just made, one of ops, named a key that no row of its file had
AbsentKey(ops, f, column, key) ==
    /\ calls' # calls
    /\ job'["p1"].op \in ops
    /\ \A i \in DOMAIN f.rows : f.rows[i][column] # key

\* C24: delete_product, update_product, update_expense, delete_expense and
\* update_invoice on a key that no row has return false, get_invoice and
\* delete_invoice return nothing, and the file is left as it was
C24_AbsentKey ==
    [][/\ AbsentKey({"delete_product", "update_product"}, inventory, "product_id",
                    last'.args.product_id)
            => ~last'.ok /\ inventory' = inventory
       /\ AbsentKey({"update_invoice", "delete_invoice", "get_invoice"}, invoices,
                    "invoice_number", inv_last'.args.invoice_number)
            => ~inv_last'.ok /\ invoices' = invoices
       /\ AbsentKey({"update_expense", "delete_expense"}, store, "expense_id",
                    str(out'.id))
            => ~out'.ok /\ store' = store]_vars

(***************************************************************************)
(* Profit per product: get_profit_by_sku on inventories whose products     *)
(* have a price or a buying price of zero as well.                         *)
(***************************************************************************)
\* a float64 of the result: a ratio num / den, or an infinity
Ratio(num, den) == [t |-> "float", num |-> num, den |-> den]
Infinity(sign) == [t |-> IF sign > 0 THEN "inf" ELSE "-inf", num |-> 0, den |-> 1]

\* (unit_profit / price * 100).fillna(0): 0 / 0 is NaN and is filled with 0,
\* x / 0 for x # 0 is an infinity, which fillna leaves
margin_pct(unit_profit, price) ==
    IF price # 0 THEN Ratio(unit_profit * 100, price)
    ELSE IF unit_profit = 0 THEN Ratio(0, 1)
    ELSE Infinity(unit_profit)

\* astype(float) / astype(int) of a column raise on a cell that is no number
get_profit_by_sku(f) ==
    IF Unreadable(f) THEN [ok |-> FALSE, ret |-> <<>>]
    ELSE LET df == read_csv(f)
             numbers == \A i \in DOMAIN df.rows :
                            \A c \in {"price", "buying_price", "sold_quantity"} :
                                df.rows[i][c].t \in {"int", "float"}
         IN IF ~numbers THEN [ok |-> FALSE, ret |-> <<>>]
            ELSE [ok |-> TRUE,
                  ret |-> [i \in DOMAIN df.rows |->
                      LET price == df.rows[i]["price"].n
                          unit_profit == price - df.rows[i]["buying_price"].n
                      IN [product_id |-> df.rows[i]["product_id"],
                          unit_profit |-> unit_profit,
                          total_profit |-> unit_profit * df.rows[i]["sold_quantity"].n,
                          margin_pct |-> margin_pct(unit_profit, price)]]]

\* the products on sale: some given away, some that cost nothing
PricedProducts ==
    {[name |-> name, size |-> PStr(TWord("M")), stock |-> MaxStock, price |-> price,
      buying_price |-> buying_price, description |-> Empty, product_id |-> Empty] :
        name \in Names, price \in {0, 5}, buying_price \in {0, 3, 7}}

AddPricedProduct ==
    \E product \in PricedProducts :
        \E r \in {add_product(inventory, product)} :
        /\ Bounded(r.file)
        /\ Call("add_product", ProductArgs(product), r)

ProfitBySku ==
    \E r \in {get_profit_by_sku(inventory)} :
        Call("get_profit_by_sku", NoArgs, Result(inventory, r.ok, r.ret, Empty))

NextProfit ==
    \/ Tick /\ AddPricedProduct
    \/ Tick /\ ReduceStock
    \/ Tick /\ ProfitBySku

SpecProfit == Init /\ [][NextProfit]_vars

\* C25: get_profit_by_sku does not fail and reports for every product row
\* unit_profit = price - buying_price, total_profit = unit_profit *
\* sold_quantity and margin_pct = unit_profit / price * 100, or 0 when the
\* price is 0, whatever the buying price
C25_ProfitBySku ==
    last.op = "get_profit_by_sku" =>
        /\ last.ok
        /\ Len(last.ret) = Len(inventory.rows)
        /\ \A i \in DOMAIN inventory.rows :
            LET price == NumOf(inventory.rows[i]["price"])
                unit_profit == price - NumOf(inventory.rows[i]["buying_price"])
            IN /\ last.ret[i].unit_profit = unit_profit
               /\ last.ret[i].total_profit =
                      unit_profit * NumOf(inventory.rows[i]["sold_quantity"])
               /\ last.ret[i].margin_pct =
                      IF price # 0 THEN Ratio(unit_profit * 100, price) ELSE Ratio(0, 1)

(***************************************************************************)
(* Constructing InventoryService on a file that is already there:          *)
(* _ensure_schema validates the header, and on a header that lacks a       *)
(* column it migrates the file and back-fills the product ids.             *)
(***************************************************************************)
NEW_COLUMNS ==
    <<[col |-> "product_id", default |-> PStr(Empty)],
      [col |-> "added_date", default |-> PStr(Today)],
      [col |-> "sold_quantity", default |-> PInt(0)]>>

\* (valid, missing) of the header against the required columns
validate_schema(f, required_columns) ==
    IF Unreadable(f) THEN [valid |-> FALSE, missing |-> required_columns]
    ELSE LET missing == SelectSeq(required_columns, LAMBDA col : col \notin Range(f.cols))
         IN [valid |-> missing = <<>>, missing |-> missing]

\* every row without an id gets generate_product_id(), which probes the ids
\* of the file on disk; the file is written once, after the loop
_generate_missing_product_ids(f) ==
    IF Unreadable(f) THEN f
    ELSE LET df0 == read_csv(f)
             df == IF "product_id" \in Range(df0.cols) THEN df0
                   ELSE AddColumn(df0, "product_id", PStr(Empty))
             lacking == {i \in DOMAIN df.rows :
                            \/ isna(df.rows[i]["product_id"])
                            \/ df.rows[i]["product_id"] = PStr(Empty)}
         IN to_csv(SetLoc(df, lacking, "product_id", PStr(generate_product_id(f))))

\* InventoryService._ensure_schema on an existing file
_ensure_schema(f) ==
    IF validate_schema(f, COLUMNS).valid THEN f
    ELSE _generate_missing_product_ids(migrate_schema(f, NEW_COLUMNS).file)

\* the header DataManager._init_files wrote, and one that already has ids
LegacyInventoryHeaders ==
    {<<"name", "description", "size", "price", "buying_price", "stock">>,
     <<"product_id", "name", "description", "size", "price", "buying_price", "stock">>}

LegacyProduct(cols, name, product_id) ==
    [c \in Range(cols) |->
        CASE c = "product_id" -> product_id
          [] c = "name" -> TWord(name)
          [] c = "description" -> Empty
          [] c = "size" -> TWord("M")
          [] c = "price" -> TInt(5)
          [] c = "buying_price" -> TInt(3)
          [] OTHER -> TInt(1)]

\* older inventory files: every product once, the ids that are there differ
LegacyInventories ==
    {f \in UNION {{[cols |-> cols, rows |-> rows] :
                      rows \in SeqsUpTo({LegacyProduct(cols, name, product_id) :
                                            name \in Names,
                                            product_id \in {Empty, TSku(1), TSku(2)}},
                                        MaxLegacyRows)} :
                  cols \in LegacyInventoryHeaders} :
        \A i, j \in DOMAIN f.rows :
            i # j => /\ f.rows[i]["name"] # f.rows[j]["name"]
                     /\ \/ "product_id" \notin Range(f.cols)
                        \/ f.rows[i]["product_id"] = Empty
                        \/ f.rows[i]["product_id"] # f.rows[j]["product_id"]}

Constructed == last.op # "init"

\* InventoryService(data_dir)
ConstructInventory ==
    /\ ~Constructed
    /\ inventory' = _ensure_schema(inventory)
    /\ last' = [op |-> "__init__", args |-> NoArgs, ok |-> TRUE, ret |-> 0, id |-> Empty]
    /\ backup' = IF validate_schema(inventory, COLUMNS).valid THEN backup
                 ELSE create_backup(inventory, backup)
    /\ UNCHANGED <<invoice_vars, store, out, calls, extra_vars>>

AddNewProduct ==
    \E product \in NewProducts :
        \E r \in {add_product(inventory, product)} :
        /\ Bounded(r.file)
        /\ Call("add_product", ProductArgs(product), r)

InitLegacyInventory ==
    /\ inventory \in LegacyInventories
    /\ last = NoCall
    /\ calls = 0
    /\ NoExtras
    /\ NoInvoices
    /\ NoFiles

NextLegacyInventory ==
    \/ ConstructInventory
    \/ Constructed /\ Tick /\ AddNewProduct
    \/ Constructed /\ Tick /\ DeleteProduct
    \/ Constructed /\ Tick /\ DeleteProductByNameSize

SpecLegacyInventory == InitLegacyInventory /\ [][NextLegacyInventory]_vars

IdsOf(f) == [i \in DOMAIN f.rows |-> f.rows[i]["product_id"]]

\* C26: once the store is constructed on an existing file, and after every
\* upsert without a caller's id and every delete, each row has a non-empty
\* product_id and no two rows have the same product_id
C26_UniqueProductIds ==
    Constructed =>
        /\ "product_id" \in Range(inventory.cols)
        /\ \A i \in DOMAIN inventory.rows : IdsOf(inventory)[i] # Empty
        /\ \A i, j \in DOMAIN inventory.rows :
              i # j => IdsOf(inventory)[i] # IdsOf(inventory)[j]

(***************************************************************************)
(* Constructing ExpenseService on a file that is already there, and        *)
(* reading back an expense that was added to it.                           *)
(***************************************************************************)
\* rows without an expense_id are numbered EXP-00001, EXP-00002, ... in file
\* order
_generate_missing_ids(f) ==
    IF Unreadable(f) THEN f
    ELSE LET df0 == read_csv(f)
             df == IF "expense_id" \in Range(df0.cols) THEN df0
                   ELSE AddColumn(df0, "expense_id", PStr(Empty))
             lacking == {i \in DOMAIN df.rows :
                            \/ isna(df.rows[i]["expense_id"])
                            \/ df.rows[i]["expense_id"] = PStr(Empty)}
             counter(i) == 1 + Cardinality({j \in lacking : j < i})
         IN to_csv([df EXCEPT !.rows =
                            [i \in DOMAIN df.rows |->
                                IF i \in lacking
                                THEN [df.rows[i] EXCEPT !["expense_id"] = PStr(TExp(counter(i)))]
                                ELSE df.rows[i]]])

\* ExpenseService._ensure_schema on an existing file
_ensure_expense_schema(f) ==
    IF validate_schema(f, EXPENSE_COLUMNS).valid THEN f
    ELSE _generate_missing_ids(migrate_schema(f, EXPENSE_NEW_COLUMNS).file)

get_expense_by_id(f, expense_id) ==
    IF Unreadable(f) \/ "expense_id" \notin Range(f.cols) THEN NoRecord
    ELSE LET df == read_csv(f)
             expense == EqMask(df, "expense_id", expense_id)
         IN IF expense = {} THEN NoRecord
            ELSE [found |-> TRUE, row |-> df.rows[Min(expense)]]

\* the header DataManager._init_files wrote
LegacyExpenseHeader == <<"date", "category", "amount", "description", "related_product">>

LegacyExpense(description) ==
    [c \in Range(LegacyExpenseHeader) |->
        CASE c = "date" -> TodayMDY
          [] c = "category" -> TWord("Courier")
          [] c = "amount" -> TInt(100)
          [] c = "description" -> description
          [] OTHER -> TWord("A")]

\* the expenses files a store is constructed on: the one it created itself
\* and older ones
ExpenseFiles ==
    {EmptyExpenses}
        \cup {[cols |-> LegacyExpenseHeader, rows |-> rows] :
                 rows \in SeqsUpTo({LegacyExpense(d) : d \in {Empty, TWord("Box")}},
                                   MaxLegacyRows)}

Opened == out.op # "init"

\* ExpenseService(data_dir)
ConstructExpenses ==
    /\ ~Opened
    /\ FileCall("__init__", store.cols, <<>>, _ensure_expense_schema(store), TRUE,
                <<>>, PNaN)
    /\ backup' = IF validate_schema(store, EXPENSE_COLUMNS).valid THEN backup
                 ELSE create_backup(store, backup)

AddExpenseTo ==
    /\ Opened
    /\ Len(store.rows) <= MaxRecords
    /\ \E data \in ExpenseRecords :
          \E r \in {add_expense(store, data)} :
          /\ FileCall("add_expense", store.cols, <<data>>, r.file, r.ok, <<>>, r.id)
          /\ UNCHANGED backup

\* get_expense_by_id(the id the last add_expense returned)
GetExpenseById ==
    /\ out.op = "add_expense"
    /\ \E r \in {get_expense_by_id(store, out.id)} :
          FileCall("get_expense_by_id", store.cols, out.data, store, r.found,
                   IF r.found THEN <<r.row>> ELSE <<>>, out.id)
    /\ UNCHANGED backup

InitOpen ==
    /\ inventory = EmptyInventory
    /\ last = NoCall
    /\ calls = 0
    /\ NoExtras
    /\ NoInvoices
    /\ store \in ExpenseFiles
    /\ backup = NoFile
    /\ out = NoFileCall

NextOpen ==
    \/ ConstructExpenses
    \/ AddExpenseTo
    \/ GetExpenseById

SpecOpen == InitOpen /\ [][NextOpen]_vars

ExpenseFields == {"date", "category", "amount", "description", "related_product"}

\* C27: get_expense_by_id of the id that add_expense returned yields a
\* record whose date, category, amount, description and related_product
\* are the values that were passed to add_expense
C27_AddExpenseColumns ==
    out.op = "get_expense_by_id" =>
        /\ out.ok
        /\ \A c \in ExpenseFields : PyEq(out.ret[1][c], out.data[1][c])

(***************************************************************************)
(* Constructing a store on an existing file, once and again: the three     *)
(* _ensure_schema methods against files that lack some required columns.   *)
(***************************************************************************)
\* rows without a hash get the hash of their customer, items and date
_generate_missing_hashes(f) ==
    IF Unreadable(f) THEN f
    ELSE LET df0 == read_csv(f)
             df == IF "hash" \in Range(df0.cols) THEN df0
                   ELSE AddColumn(df0, "hash", PStr(Empty))
             lacking == {i \in DOMAIN df.rows :
                            isna(df.rows[i]["hash"]) \/ df.rows[i]["hash"] = PStr(Empty)}
         IN to_csv([df EXCEPT !.rows =
                            [i \in DOMAIN df.rows |->
                                IF i \in lacking
                                THEN [df.rows[i] EXCEPT !["hash"] =
                                        PStr(_compute_hash(df.rows[i]["customer_name"],
                                                           df.rows[i]["items_json"].s,
                                                           df.rows[i]["date"].s))]
                                ELSE df.rows[i]]])

\* InvoiceService._ensure_schema on an existing file
_ensure_invoice_schema(f) ==
    IF validate_schema(f, INVOICE_COLUMNS).valid THEN f
    ELSE _generate_missing_hashes(migrate_schema(f, INVOICE_NEW_COLUMNS).file)

\* the three services: required columns, records, columns a file may lack
Services ==
    {[name |-> "inventory", cols |-> COLUMNS, records |-> InventoryRecords,
      optional |-> {"product_id", "description", "buying_price", "added_date",
                    "sold_quantity"}],
     [name |-> "invoices", cols |-> INVOICE_COLUMNS, records |-> InvoiceRecords,
      optional |-> {"transaction_id", "status", "original_invoice_no", "hash"}],
     [name |-> "expenses", cols |-> EXPENSE_COLUMNS, records |-> ExpenseRecords,
      optional |-> {"expense_id", "related_product", "allocated"}]}

\* the file f without the columns of lacking
Without(f, lacking) ==
    LET kept == SelectSeq(f.cols, LAMBDA c : c \notin lacking) IN
    [cols |-> kept,
     rows |-> [i \in DOMAIN f.rows |-> [c \in Range(kept) |-> f.rows[i][c]]]]

\* files a service wrote, under a header that lacks some of its columns
OlderFiles ==
    UNION {{Without(write_csv_safe(data, svc.cols), lacking) :
               data \in SeqsUpTo(svc.records, 1), lacking \in SUBSET svc.optional} :
           svc \in Services}

ensure_schema(name, f) ==
    CASE name = "inventory" -> _ensure_schema(f)
      [] name = "invoices" -> _ensure_invoice_schema(f)
      [] OTHER -> _ensure_expense_schema(f)

\* InventoryService(data_dir), InvoiceService(data_dir) or
\* ExpenseService(data_dir) on its file, for the first time or again
ConstructStore ==
    \E svc \in Services :
        /\ Range(store.cols) \subseteq Range(svc.cols)
        /\ Range(svc.cols) \ Range(store.cols) \subseteq svc.optional
        /\ FileCall("__init__", svc.cols, <<>>, ensure_schema(svc.name, store), TRUE,
                    <<>>, PNaN)
        /\ backup' = IF validate_schema(store, svc.cols).valid THEN backup
                     ELSE create_backup(store, backup)

InitOlder ==
    /\ inventory = EmptyInventory
    /\ last = NoCall
    /\ calls = 0
    /\ NoExtras
    /\ NoInvoices
    /\ store \in OlderFiles
    /\ backup = NoFile
    /\ out = NoFileCall

NextOlder == ConstructStore

SpecOlder == InitOlder /\ [][NextOlder]_vars

\* C28: after a store is constructed on an existing file, the file has every
\* required column of that store, and constructing the store again leaves
\* the file as it is
C28_SchemaComplete ==
    [][out'.op = "__init__" =>
          /\ validate_schema(store', out'.cols).valid
          /\ out.op = "__init__" => store' = store]_vars

(***************************************************************************)
(* The invoice number as a key.                                            *)
(***************************************************************************)
NumbersOf(f) == [i \in DOMAIN f.rows |-> f.rows[i]["invoice_number"]]

\* C29: after any run of saves under the proposed number, returns and
\* deletions, no two rows of the invoice file have the same invoice_number,
\* and the number proposed next is the number of no row in the file
C29_UniqueInvoiceNumbers ==
    /\ \A i, j \in DOMAIN invoices.rows :
          i # j => NumbersOf(invoices)[i] # NumbersOf(invoices)[j]
    /\ \A i \in DOMAIN invoices.rows :
          NumbersOf(invoices)[i] # get_next_invoice_number(invoices)

(***************************************************************************)
(* The sale flow, InvoiceTab._generate, step by step: stock check and      *)
(* confirmation, DataManager.save_invoice, the PDF, one reduce_stock per   *)
(* line item, the refresh and the opening of the PDF.  job["p1"].at is the *)
(* position in the flow, inv_last the form and the outcome of the save,    *)
(* calls the number of reduce_stock calls made.                            *)
(***************************************************************************)
\* the header DataManager._init_files writes
LEGACY_INVOICE_COLUMNS == SubSeq(INVOICE_COLUMNS, 1, 12)

\* DataManager.save_invoice: the twelve values appended as one line
legacy_save_invoice(f, data) ==
    AppendLine(f, <<PStr(data.invoice_number), PStr(data.date), data.customer_name,
                    data.customer_phone, data.customer_address, data.subtotal,
                    data.discount, data.delivery, data.grand_total,
                    PStr(data.payment_method), PStr(Empty),
                    PStr(TItems(data.products))>>)

\* the size a line item names, as the str the form hands over
ItemSize(item) == PStr(IF item.size = "44" THEN TInt(44) ELSE TWord(item.size))

FlowAt == job["p1"].at
FlowItems == ItemLists[inv_last.args.products]

FlowStep(at) ==
    /\ job' = [job EXCEPT !["p1"] = [NoJob EXCEPT !.at = at, !.op = "_generate"]]
    /\ UNCHANGED <<issued, file_vars, history_vars, category_vars, lock_vars>>

\* lines 550-570: the line items are read off the form, the stock of each is
\* checked, and on a shortage the user is asked whether to continue
CheckAndConfirm ==
    /\ FlowAt = "idle"
    /\ \E customer \in Customers, items \in {i \in DOMAIN ItemLists : ItemLists[i] # <<>>},
          answer \in BOOLEAN :
          LET stock_issues ==
                  \E k \in DOMAIN ItemLists[items] :
                      ~legacy_check_stock_availability(
                            inventory, ItemLists[items][k].name,
                            ItemSize(ItemLists[items][k]), ItemLists[items][k].qty).ok
          IN /\ inv_last' = [NoInvoiceCall EXCEPT
                                !.op = "_generate",
                                !.ok = FALSE,
                                !.args = [NoInvoiceArgs EXCEPT
                                            !.invoice_number =
                                                legacy_get_next_invoice_number(invoices),
                                            !.customer_name = customer,
                                            !.products = items,
                                            !.numbered = TRUE]]
             /\ FlowStep(IF stock_issues /\ ~answer THEN "returned" ELSE "confirmed")
    /\ UNCHANGED <<inventory_vars, invoices, calls>>

\* line 584: the invoice is appended, or the write fails and save_invoice
\* returns False; _generate does not look at the result
SaveStep ==
    /\ FlowAt = "confirmed"
    /\ \E written \in BOOLEAN :
          /\ invoices' =
                IF written
                THEN legacy_save_invoice(invoices,
                         InvoiceData(inv_last.args.invoice_number,
                                     inv_last.args.customer_name,
                                     inv_last.args.products))
                ELSE invoices
          /\ inv_last' = [inv_last EXCEPT !.op = "save_invoice", !.ok = written]
    /\ FlowStep("saved")
    /\ UNCHANGED <<inventory_vars, calls>>

\* lines 587-589: InvoiceGenerator(path).generate(data) returns or raises
GeneratePdf ==
    /\ FlowAt = "saved"
    /\ \E raised \in BOOLEAN : FlowStep(IF raised THEN "failed" ELSE "generated")
    /\ UNCHANGED <<inventory_vars, invoices, inv_last, calls>>

\* lines 593-601: reduce_stock for the next line item
ReduceItem ==
    /\ FlowAt = "generated"
    /\ calls < Len(FlowItems)
    /\ LET prod == FlowItems[calls + 1]
           r == legacy_reduce_stock(inventory, prod.name, ItemSize(prod), prod.qty)
       IN /\ inventory' = r.file
          /\ last' = [op |-> "reduce_stock",
                      args |-> [NoArgs EXCEPT !.name = prod.name, !.size = ItemSize(prod),
                                              !.qty = prod.qty],
                      ok |-> r.ok, ret |-> r.ret, id |-> r.id]
    /\ calls' = calls + 1
    /\ FlowStep("generated")
    /\ UNCHANGED <<invoices, inv_last>>

\* lines 604-614: the tabs are refreshed and the PDF is opened with
\* os.startfile, which only Windows has
OpenPdf ==
    /\ FlowAt = "generated"
    /\ calls = Len(FlowItems)
    /\ FlowStep(IF os_name = "nt" THEN "done" ELSE "failed")
    /\ UNCHANGED <<inventory_vars, invoices, inv_last, calls>>

InitSale ==
    /\ \E p1 \in {p \in StartProducts : p.name = "A" /\ p.stock = MaxStock},
          p2 \in StartProducts :
          inventory = add_product(add_product(EmptyInventory, p1).file, p2).file
    /\ last = NoCall
    /\ calls = 0
    /\ NoHistory /\ NoCategoryCalls /\ NoLocks /\ NoJobs
    /\ os_name \in {"posix", "nt"}
    /\ invoices = [cols |-> LEGACY_INVOICE_COLUMNS, rows |-> <<>>]
    /\ inv_last = NoInvoiceCall
    /\ issued = <<>>
    /\ NoFiles

NextSale ==
    \/ CheckAndConfirm
    \/ SaveStep
    \/ GeneratePdf
    \/ ReduceItem
    \/ OpenPdf

SpecSale == InitSale /\ [][NextSale]_vars

Persisted == inv_last.op = "save_invoice" /\ inv_last.ok
FlowEnded == FlowAt \in {"returned", "failed", "done"}

\* C30: when the sale flow has ended and the invoice was stored, reduce_stock
\* has been called for every line item of the invoice, and reduce_stock is
\* called for no line item of an invoice that was not stored
C30_PersistedThenDeducted ==
    /\ (FlowEnded /\ Persisted) => calls = Len(FlowItems)
    /\ calls > 0 => Persisted

====
